---------------------------- MODULE Spec2Model ----------------------------
(***************************************************************************)
(* A model of ollama-file-find (crate ollama-file-find-inner and the two   *)
(* older copies of its scanner): the layer media-type grammar, the         *)
(* identity resolver and canonical naming, the digest-to-path mapper, the  *)
(* blob integrity checker, the listed record and the manifest scanner.     *)
(*                                                                         *)
(* Strings are sequences of one-character strings, so that trimming,       *)
(* splitting, prefix tests and concatenation are computed as the code      *)
(* computes them.  Option<T> is a sequence of length 0 (None) or 1 (Some). *)
(***************************************************************************)
EXTENDS Integers, Sequences, FiniteSets, TLC

VARIABLES
    mt_pc,      \* media type driver: "idle" | "input" | "value" | "text" | "done"
    mt_input,   \* Option<String>: the text handed to from_str first
    mt_value,   \* Result<OllamaMediaType>: the value under study
    mt_text,    \* Option<String>: to_string() of mt_value
    mt_parsed,  \* Option<Result<OllamaMediaType>>: from_str of mt_text
    id_pc,      \* identity driver: "idle" | "comps" | "id" | "done"
    id_src,     \* where the identity comes from: "idle" | "path" | "direct"
    id_comps,   \* Vec<String>: path segments relative to the manifest root
    id_hidden,  \* include_hidden
    id_model,   \* Option<ModelId>: what parse_components returned
    id_name,    \* Option<String>: ModelId::normalize
    bl_pc,      \* blob driver: "idle" | "start" | "done"
    bl_mode,    \* what the driver runs: "idle" | "digest" | "record" | "manifest"
    bl_digest,  \* Option<String>: the digest handed to digest_to_blob_path
    bl_record,  \* Option<LayerInfo>: the record handed to build_blob_path_info
    bl_layers,  \* manifest.layers
    bl_config,  \* manifest.config (Option<LayerInfo>)
    bl_fs,      \* the files on disk: a function from path to length
    bl_path,    \* Option<String>: what digest_to_blob_path returned
    bl_info,    \* Option<BlobPathInfo>: what build_blob_path_info returned
    bl_primary, \* Option<String>: primary digest chosen by build_blob_infos
    bl_infos,   \* Vec<BlobPathInfo> returned by build_blob_infos
    lm_pc,      \* record driver: "idle" | "start" | "new" | "built" | "verbose" | "panicked"
    lm_layers,  \* manifest.layers
    lm_config,  \* manifest.config (Option<LayerInfo>)
    lm_fs,      \* the files on disk: a function from path to length
    lm_mtime,   \* Option<u64>: what compute_mtime reads for the manifest file
    lm_verbose, \* the verbose argument of build_listed_model
    lm_listed,  \* Option<ListedModel>: the record built
    sc_pc,      \* scanner: "idle" | "scan" | "returned" | "panicked"
    sc_entries, \* what WalkDir yields, in traversal order
    sc_args,    \* ScanArgs.include_hidden and .verbose, and the build profile
    sc_pos,     \* index of the next entry of the traversal
    sc_models,  \* Vec<ListedModel>: models
    sc_stderr   \* the lines written by eprintln!

mt_vars == <<mt_pc, mt_input, mt_value, mt_text, mt_parsed>>
id_vars == <<id_pc, id_src, id_comps, id_hidden, id_model, id_name>>
bl_vars == <<bl_pc, bl_mode, bl_digest, bl_record, bl_layers, bl_config, bl_fs,
            bl_path, bl_info, bl_primary, bl_infos>>
lm_vars == <<lm_pc, lm_layers, lm_config, lm_fs, lm_mtime, lm_verbose, lm_listed>>
sc_vars == <<sc_pc, sc_entries, sc_args, sc_pos, sc_models, sc_stderr>>
vars == <<mt_vars, id_vars, bl_vars, lm_vars, sc_vars>>

---------------------------------------------------------------------------
(* Option<T> *)
None == <<>>
Some(x) == <<x>>
IsSome(o) == Len(o) = 1

---------------------------------------------------------------------------
(* str primitives of the Rust standard library, as the code uses them *)

\* char::is_whitespace, on the characters the model draws
is_whitespace(c) == c = " "

\* str::trim
trim(s) ==
    IF \A i \in 1..Len(s) : is_whitespace(s[i]) THEN <<>>
    ELSE LET first == CHOOSE i \in 1..Len(s) :
                          /\ ~is_whitespace(s[i])
                          /\ \A j \in 1..(i - 1) : is_whitespace(s[j])
             last == CHOOSE i \in 1..Len(s) :
                          /\ ~is_whitespace(s[i])
                          /\ \A j \in (i + 1)..Len(s) : is_whitespace(s[j])
         IN SubSeq(s, first, last)

\* str::starts_with / str::strip_prefix
starts_with(s, p) == Len(s) >= Len(p) /\ SubSeq(s, 1, Len(p)) = p

\* index of the first occurrence of character c in s, 0 when there is none
find_char(s, c) ==
    IF \E i \in 1..Len(s) : s[i] = c
    THEN CHOOSE i \in 1..Len(s) : s[i] = c /\ \A j \in 1..(i - 1) : s[j] # c
    ELSE 0

\* str::split(c): always at least one piece
RECURSIVE split(_, _)
split(s, c) ==
    LET i == find_char(s, c)
    IN IF i = 0 THEN <<s>>
       ELSE <<SubSeq(s, 1, i - 1)>> \o split(SubSeq(s, i + 1, Len(s)), c)

\* str::splitn(2, c): one piece, or the text before and after the first c
splitn2(s, c) ==
    LET i == find_char(s, c)
    IN IF i = 0 THEN <<s>>
       ELSE <<SubSeq(s, 1, i - 1), SubSeq(s, i + 1, Len(s))>>

\* str::replace(c, d)
replace(s, c, d) == [i \in 1..Len(s) |-> IF s[i] = c THEN d ELSE s[i]]

UpperChars == <<"A","B","C","D","E","F","G","H","I","J","K","L","M",
                "N","O","P","Q","R","S","T","U","V","W","X","Y","Z">>
LowerChars == <<"a","b","c","d","e","f","g","h","i","j","k","l","m",
                "n","o","p","q","r","s","t","u","v","w","x","y","z">>

\* u8::to_ascii_lowercase
to_ascii_lowercase(c) ==
    IF \E i \in 1..Len(UpperChars) : UpperChars[i] = c
    THEN LowerChars[CHOOSE i \in 1..Len(UpperChars) : UpperChars[i] = c]
    ELSE c

\* str::eq_ignore_ascii_case
eq_ignore_ascii_case(a, b) ==
    /\ Len(a) = Len(b)
    /\ \A i \in 1..Len(a) : to_ascii_lowercase(a[i]) = to_ascii_lowercase(b[i])

Digits == <<"0","1","2","3","4","5","6","7","8","9">>
IsDigit(c) == \E i \in 1..Len(Digits) : Digits[i] = c
DigitVal(c) == (CHOOSE i \in 1..Len(Digits) : Digits[i] = c) - 1

\* u64::MAX = 18446744073709551615, digit by digit
U64MaxDigits == <<1,8,4,4,6,7,4,4,0,7,3,7,0,9,5,5,1,6,1,5>>

RECURSIVE strip_zeros(_)
strip_zeros(s) ==
    IF Len(s) > 1 /\ s[1] = "0" THEN strip_zeros(Tail(s)) ELSE s

\* a string of digits exceeds u64::MAX
overflows_u64(ds) ==
    LET z == strip_zeros(ds)
    IN \/ Len(z) > Len(U64MaxDigits)
       \/ /\ Len(z) = Len(U64MaxDigits)
          /\ \E i \in 1..Len(z) :
                /\ DigitVal(z[i]) > U64MaxDigits[i]
                /\ \A j \in 1..(i - 1) : DigitVal(z[j]) = U64MaxDigits[j]

RECURSIVE decimal(_)
decimal(ds) ==
    IF ds = <<>> THEN 0
    ELSE 10 * decimal(SubSeq(ds, 1, Len(ds) - 1)) + DigitVal(ds[Len(ds)])

\* <u64 as FromStr>::from_str: an optional leading '+', then one or more
\* digits, no overflow.  Some(value) or None (a ParseIntError)
parse_u64(s) ==
    LET ds == IF Len(s) > 1 /\ s[1] = "+" THEN Tail(s) ELSE s
    IN IF ds = <<>> \/ \E i \in 1..Len(ds) : ~IsDigit(ds[i]) THEN None
       ELSE IF overflows_u64(ds) THEN None
       ELSE Some(decimal(ds))

\* concatenation of a sequence of strings (format!)
RECURSIVE concat(_)
concat(ss) == IF ss = <<>> THEN <<>> ELSE Head(ss) \o concat(Tail(ss))

---------------------------------------------------------------------------
(* media_type.rs: OllamaMediaType, Display and FromStr *)

RESERVED_PREFIX == <<"a","p","p","l","i","c","a","t","i","o","n","/","v","n","d",
                     ".","o","l","l","a","m","a",".","i","m","a","g","e",".">>

\* the variants without fields, with the last part of their base
PlainBases ==
    [Tokenizer       |-> <<"t","o","k","e","n","i","z","e","r">>,
     TokenizerConfig |-> <<"t","o","k","e","n","i","z","e","r",".","c","o","n","f","i","g">>,
     License         |-> <<"l","i","c","e","n","s","e">>,
     Model           |-> <<"m","o","d","e","l">>,
     Adapter         |-> <<"a","d","a","p","t","e","r">>,
     Projector       |-> <<"p","r","o","j","e","c","t","o","r">>,
     System          |-> <<"s","y","s","t","e","m">>,
     Params          |-> <<"p","a","r","a","m","s">>,
     Messages        |-> <<"m","e","s","s","a","g","e","s">>,
     Prompt          |-> <<"p","r","o","m","p","t">>,
     EmbedLegacy     |-> <<"e","m","b","e","d">>]
PlainTags == DOMAIN PlainBases

CONFIG_BASE   == RESERVED_PREFIX \o <<"c","o","n","f","i","g">>
TEMPLATE_BASE == RESERVED_PREFIX \o <<"t","e","m","p","l","a","t","e">>
TENSOR_BASE   == RESERVED_PREFIX \o <<"t","e","n","s","o","r">>

KEY_TYPE  == <<"t","y","p","e">>
KEY_NAME  == <<"n","a","m","e">>
KEY_DTYPE == <<"d","t","y","p","e">>
KEY_SHAPE == <<"s","h","a","p","e">>

\* the variants of OllamaMediaType
Config(config_type) == [tag |-> "Config", config_type |-> config_type]
Template(name) == [tag |-> "Template", name |-> name]
Tensor(name, dtype, shape_raw, shape) ==
    [tag |-> "Tensor", name |-> name, dtype |-> dtype,
     shape_raw |-> shape_raw, shape |-> shape]
Plain(tag) == [tag |-> tag]
Unknown(s) == [tag |-> "Unknown", raw |-> s]

\* Result<OllamaMediaType, MediaTypeParseError>
Ok(v) == [ok |-> TRUE, v |-> v]
ErrEmpty == [ok |-> FALSE, err |-> "Empty"]
ErrInvalidBase(b) == [ok |-> FALSE, err |-> "InvalidBase", arg |-> b]
ErrMissingParam(k) == [ok |-> FALSE, err |-> "MissingParam", arg |-> k]
ErrInvalidShapeComponent(s) ==
    [ok |-> FALSE, err |-> "InvalidShapeComponent", arg |-> s]

\* OllamaMediaType::base
base(v) ==
    CASE v.tag = "Config"   -> CONFIG_BASE
      [] v.tag = "Template" -> TEMPLATE_BASE
      [] v.tag = "Tensor"   -> TENSOR_BASE
      [] v.tag = "Unknown"  -> v.raw
      [] OTHER              -> RESERVED_PREFIX \o PlainBases[v.tag]

\* <u64 as Display>::fmt
RECURSIVE u64_to_string(_)
u64_to_string(n) ==
    IF n < 10 THEN <<Digits[n + 1]>>
    ELSE u64_to_string(n \div 10) \o <<Digits[(n % 10) + 1]>>

\* impl Display for TensorShape: the dims joined with ","
RECURSIVE fmt_shape(_)
fmt_shape(dims) ==
    IF dims = <<>> THEN <<>>
    ELSE IF Len(dims) = 1 THEN u64_to_string(dims[1])
    ELSE u64_to_string(dims[1]) \o <<",">> \o fmt_shape(Tail(dims))

\* fmt with one slip: the parameters are introduced by ";" alone
fmt_no_space(v) ==
    CASE v.tag = "Config" ->
            concat(<<base(v), <<";">>, KEY_TYPE, <<"=">>, v.config_type>>)
      [] v.tag = "Template" /\ IsSome(v.name) ->
            concat(<<base(v), <<";">>, KEY_NAME, <<"=">>, v.name[1]>>)
      [] v.tag = "Tensor" ->
            concat(<<base(v), <<";">>, KEY_NAME, <<"=">>, v.name,
                     <<";">>, KEY_DTYPE, <<"=">>, v.dtype,
                     <<";">>, KEY_SHAPE, <<"=">>, v.shape_raw>>)
      [] v.tag = "Unknown" -> v.raw
      [] OTHER -> base(v)

\* fmt with one slip: the tensor arm writes the parsed shape, not shape_raw
fmt_parsed_shape(v) ==
    CASE v.tag = "Config" ->
            concat(<<base(v), <<";", " ">>, KEY_TYPE, <<"=">>, v.config_type>>)
      [] v.tag = "Template" /\ IsSome(v.name) ->
            concat(<<base(v), <<";", " ">>, KEY_NAME, <<"=">>, v.name[1]>>)
      [] v.tag = "Tensor" ->
            concat(<<base(v), <<";", " ">>, KEY_NAME, <<"=">>, v.name,
                     <<";", " ">>, KEY_DTYPE, <<"=">>, v.dtype,
                     <<";", " ">>, KEY_SHAPE, <<"=">>,
                     IF IsSome(v.shape) THEN fmt_shape(v.shape[1]) ELSE <<>>>>)
      [] v.tag = "Unknown" -> v.raw
      [] OTHER -> base(v)

\* fmt with one slip: the Unknown arm writes the text up to the first ';'
\* only, and drops the parameters the value carries
fmt_unknown_base(v) ==
    CASE v.tag = "Config" ->
            concat(<<base(v), <<";", " ">>, KEY_TYPE, <<"=">>, v.config_type>>)
      [] v.tag = "Template" /\ IsSome(v.name) ->
            concat(<<base(v), <<";", " ">>, KEY_NAME, <<"=">>, v.name[1]>>)
      [] v.tag = "Tensor" ->
            concat(<<base(v), <<";", " ">>, KEY_NAME, <<"=">>, v.name,
                     <<";", " ">>, KEY_DTYPE, <<"=">>, v.dtype,
                     <<";", " ">>, KEY_SHAPE, <<"=">>, v.shape_raw>>)
      [] v.tag = "Unknown" ->
            IF find_char(v.raw, ";") = 0 THEN v.raw
            ELSE trim(SubSeq(v.raw, 1, find_char(v.raw, ";") - 1))
      [] OTHER -> base(v)

\* impl Display for OllamaMediaType
fmt(v) ==
    CASE v.tag = "Config" ->
            concat(<<base(v), <<";", " ">>, KEY_TYPE, <<"=">>, v.config_type>>)
      [] v.tag = "Template" /\ IsSome(v.name) ->
            concat(<<base(v), <<";", " ">>, KEY_NAME, <<"=">>, v.name[1]>>)
      [] v.tag = "Tensor" ->
            concat(<<base(v), <<";", " ">>, KEY_NAME, <<"=">>, v.name,
                     <<";", " ">>, KEY_DTYPE, <<"=">>, v.dtype,
                     <<";", " ">>, KEY_SHAPE, <<"=">>, v.shape_raw>>)
      [] v.tag = "Unknown" -> v.raw
      [] OTHER -> base(v)

\* parse_dims with one slip: an empty part is parsed like any other
RECURSIVE parse_dims_keep_empty(_, _)
parse_dims_keep_empty(parts, dims) ==
    IF parts = <<>> THEN [ok |-> TRUE, dims |-> dims]
    ELSE LET s == trim(Head(parts))
         IN IF IsSome(parse_u64(s))
            THEN parse_dims_keep_empty(Tail(parts), Append(dims, parse_u64(s)[1]))
            ELSE [ok |-> FALSE, bad |-> s]

\* the loop of parse_shape over the parts of the trimmed value: the dims
\* pushed so far, or the first part that is no u64
RECURSIVE parse_dims(_, _)
parse_dims(parts, dims) ==
    IF parts = <<>> THEN [ok |-> TRUE, dims |-> dims]
    ELSE LET s == trim(Head(parts))
         IN IF s = <<>> THEN parse_dims(Tail(parts), dims)
            ELSE IF IsSome(parse_u64(s))
                 THEN parse_dims(Tail(parts), Append(dims, parse_u64(s)[1]))
                 ELSE [ok |-> FALSE, bad |-> s]

\* parse_shape: Ok(None), Ok(Some(TensorShape)) or Err(InvalidShapeComponent)
parse_shape(raw) ==
    LET trimmed == trim(raw)
    IN IF trimmed = <<>> THEN [ok |-> TRUE, shape |-> None]
       ELSE LET r == parse_dims(split(trimmed, ","), <<>>)
            IN IF r.ok THEN [ok |-> TRUE, shape |-> Some(r.dims)]
               ELSE [ok |-> FALSE, bad |-> r.bad]

\* the (k, v) pairs from_str collects from the parameter chunks
RECURSIVE collect_params(_)
collect_params(parts) ==
    IF parts = <<>> THEN <<>>
    ELSE LET p == Head(parts)
             kv == splitn2(p, "=")
             k == trim(kv[1])
             v == IF Len(kv) > 1 THEN trim(kv[2]) ELSE <<>>
         IN IF p = <<>> \/ k = <<>> THEN collect_params(Tail(parts))
            ELSE <<<<k, v>>>> \o collect_params(Tail(parts))

\* get_param with one slip: the last pair whose key matches is taken
get_param_last(params, key) ==
    IF \E i \in 1..Len(params) : eq_ignore_ascii_case(params[i][1], key)
    THEN LET i == CHOOSE i \in 1..Len(params) :
                     /\ eq_ignore_ascii_case(params[i][1], key)
                     /\ \A j \in (i + 1)..Len(params) :
                            ~eq_ignore_ascii_case(params[j][1], key)
         IN Some(params[i][2])
    ELSE None

\* the get_param closure: the value of the first pair whose key matches
get_param(params, key) ==
    IF \E i \in 1..Len(params) : eq_ignore_ascii_case(params[i][1], key)
    THEN LET i == CHOOSE i \in 1..Len(params) :
                     /\ eq_ignore_ascii_case(params[i][1], key)
                     /\ \A j \in 1..(i - 1) :
                            ~eq_ignore_ascii_case(params[j][1], key)
         IN Some(params[i][2])
    ELSE None

\* the tensor arm with one slip: a shape that is present is parsed before
\* the required parameters are checked
parse_tensor_arm_shape_first(params) ==
    LET name == get_param(params, KEY_NAME)
        dtype == get_param(params, KEY_DTYPE)
        shape_raw == get_param(params, KEY_SHAPE)
    IN IF IsSome(shape_raw) /\ ~parse_shape(shape_raw[1]).ok
       THEN ErrInvalidShapeComponent(parse_shape(shape_raw[1]).bad)
       ELSE IF ~IsSome(name) THEN ErrMissingParam(KEY_NAME)
       ELSE IF ~IsSome(dtype) THEN ErrMissingParam(KEY_DTYPE)
       ELSE IF ~IsSome(shape_raw) THEN ErrMissingParam(KEY_SHAPE)
       ELSE Ok(Tensor(name[1], dtype[1], shape_raw[1], parse_shape(shape_raw[1]).shape))

\* the tensor arm of from_str
parse_tensor_arm(params) ==
    LET name == get_param(params, KEY_NAME)
        dtype == get_param(params, KEY_DTYPE)
        shape_raw == get_param(params, KEY_SHAPE)
    IN IF ~IsSome(name) THEN ErrMissingParam(KEY_NAME)
       ELSE IF ~IsSome(dtype) THEN ErrMissingParam(KEY_DTYPE)
       ELSE IF ~IsSome(shape_raw) THEN ErrMissingParam(KEY_SHAPE)
       ELSE LET sh == parse_shape(shape_raw[1])
            IN IF ~sh.ok THEN ErrInvalidShapeComponent(sh.bad)
               ELSE Ok(Tensor(name[1], dtype[1], shape_raw[1], sh.shape))

\* from_str with one slip: an Unknown keeps the base only, not the input
from_str_unknown_base(raw_input) ==
    LET input == trim(raw_input)
    IN IF input = <<>> THEN ErrEmpty
       ELSE
       LET parts == [i \in 1..Len(split(input, ";")) |-> trim(split(input, ";")[i])]
           b == parts[1]
           params == collect_params(Tail(parts))
       IN CASE b = CONFIG_BASE ->
                 IF IsSome(get_param(params, KEY_TYPE))
                 THEN Ok(Config(get_param(params, KEY_TYPE)[1]))
                 ELSE ErrMissingParam(KEY_TYPE)
            [] b = TEMPLATE_BASE -> Ok(Template(get_param(params, KEY_NAME)))
            [] b = TENSOR_BASE -> parse_tensor_arm(params)
            [] \E t \in PlainTags : b = RESERVED_PREFIX \o PlainBases[t] ->
                 Ok(Plain(CHOOSE t \in PlainTags : b = RESERVED_PREFIX \o PlainBases[t]))
            [] OTHER ->
                 IF starts_with(b, RESERVED_PREFIX) THEN Ok(Unknown(b))
                 ELSE ErrInvalidBase(b)

\* from_str with one slip: a base outside the reserved prefix is kept as
\* an Unknown as well
from_str_any_base(raw_input) ==
    LET input == trim(raw_input)
    IN IF input = <<>> THEN ErrEmpty
       ELSE
       LET parts == [i \in 1..Len(split(input, ";")) |-> trim(split(input, ";")[i])]
           b == parts[1]
           params == collect_params(Tail(parts))
       IN CASE b = CONFIG_BASE ->
                 IF IsSome(get_param(params, KEY_TYPE))
                 THEN Ok(Config(get_param(params, KEY_TYPE)[1]))
                 ELSE ErrMissingParam(KEY_TYPE)
            [] b = TEMPLATE_BASE -> Ok(Template(get_param(params, KEY_NAME)))
            [] b = TENSOR_BASE -> parse_tensor_arm(params)
            [] \E t \in PlainTags : b = RESERVED_PREFIX \o PlainBases[t] ->
                 Ok(Plain(CHOOSE t \in PlainTags : b = RESERVED_PREFIX \o PlainBases[t]))
            [] OTHER ->
                 Ok(Unknown(input))

\* from_str with one slip: a parameterless base followed by parameters is
\* not recognised
from_str_plain_strict(raw_input) ==
    LET input == trim(raw_input)
    IN IF input = <<>> THEN ErrEmpty
       ELSE
       LET parts == [i \in 1..Len(split(input, ";")) |-> trim(split(input, ";")[i])]
           b == parts[1]
           params == collect_params(Tail(parts))
       IN CASE b = CONFIG_BASE ->
                 IF IsSome(get_param(params, KEY_TYPE))
                 THEN Ok(Config(get_param(params, KEY_TYPE)[1]))
                 ELSE ErrMissingParam(KEY_TYPE)
            [] b = TEMPLATE_BASE -> Ok(Template(get_param(params, KEY_NAME)))
            [] b = TENSOR_BASE -> parse_tensor_arm(params)
            [] params = <<>> /\ \E t \in PlainTags : b = RESERVED_PREFIX \o PlainBases[t] ->
                 Ok(Plain(CHOOSE t \in PlainTags : b = RESERVED_PREFIX \o PlainBases[t]))
            [] OTHER ->
                 IF starts_with(b, RESERVED_PREFIX) THEN Ok(Unknown(input))
                 ELSE ErrInvalidBase(b)

\* <OllamaMediaType as FromStr>::from_str
from_str(raw_input) ==
    LET input == trim(raw_input)
    IN IF input = <<>> THEN ErrEmpty
       ELSE
       LET parts == [i \in 1..Len(split(input, ";")) |-> trim(split(input, ";")[i])]
           b == parts[1]
           params == collect_params(Tail(parts))
       IN CASE b = CONFIG_BASE ->
                 IF IsSome(get_param(params, KEY_TYPE))
                 THEN Ok(Config(get_param(params, KEY_TYPE)[1]))
                 ELSE ErrMissingParam(KEY_TYPE)
            [] b = TEMPLATE_BASE -> Ok(Template(get_param(params, KEY_NAME)))
            [] b = TENSOR_BASE -> parse_tensor_arm(params)
            [] \E t \in PlainTags : b = RESERVED_PREFIX \o PlainBases[t] ->
                 Ok(Plain(CHOOSE t \in PlainTags : b = RESERVED_PREFIX \o PlainBases[t]))
            [] OTHER ->
                 IF starts_with(b, RESERVED_PREFIX) THEN Ok(Unknown(input))
                 ELSE ErrInvalidBase(b)

---------------------------------------------------------------------------
(* Bounded strings *)

\* all strings over the characters cs of length at most n
StringsUpTo(cs, n) == UNION {[1..k -> cs] : k \in 0..n}

MaxFieldLen == 2
MaxShapeLen == 3

\* contents of the string fields of a value: a letter, a blank, the two
\* separators of the grammar
FieldChars == {"a", " ", ";", "="}
FieldStrings == StringsUpTo(FieldChars, MaxFieldLen)
ShortStrings == StringsUpTo({"a", " ", ";"}, 1)

\* contents of a shape parameter
ShapeChars == {"1", "0", ",", " ", "x", "+"}
ShapeStrings == StringsUpTo(ShapeChars, MaxShapeLen)

\* the shapes a Tensor value may carry beside shape_raw: none, an empty one,
\* the one parse_shape reads from shape_raw, another one
ShapesFor(shape_raw) ==
    {None, Some(<<>>), Some(<<7>>)}
        \cup (IF parse_shape(shape_raw).ok THEN {parse_shape(shape_raw).shape} ELSE {})

\* raw strings an Unknown value may carry
UnknownStrings ==
    {RESERVED_PREFIX \o <<"f","u","t","u","r","e">> \o s : s \in FieldStrings}
        \cup {RESERVED_PREFIX \o s : s \in FieldStrings}
        \cup {<<" ">> \o RESERVED_PREFIX \o <<"x">>,
              RESERVED_PREFIX \o PlainBases["Model"],
              CONFIG_BASE, TENSOR_BASE \o <<";", "a">>,
              <<"t","e","x","t","/","p","l","a","i","n">>, <<>>}

\* the OllamaMediaType values the driver starts from
MediaValues ==
    {Config(s) : s \in FieldStrings}
        \cup {Template(None)}
        \cup {Template(Some(s)) : s \in FieldStrings}
        \cup {Tensor(n, d, <<"1">>, sh) : n \in FieldStrings, d \in ShortStrings,
                                         sh \in ShapesFor(<<"1">>)}
        \cup UNION {{Tensor(<<"a">>, <<"a">>, r, sh) : sh \in ShapesFor(r)} :
                        r \in ShapeStrings}
        \cup {Plain(t) : t \in PlainTags}
        \cup {Unknown(s) : s \in UnknownStrings}

\* the texts the driver hands to from_str first: a base, possibly padded,
\* followed by parameter chunks
InputBases ==
    {CONFIG_BASE, TEMPLATE_BASE, TENSOR_BASE,
     RESERVED_PREFIX \o PlainBases["Model"],
     RESERVED_PREFIX \o PlainBases["TokenizerConfig"],
     RESERVED_PREFIX \o <<"f","u","t","u","r","e">>,
     RESERVED_PREFIX,
     <<"t","e","x","t","/","p","l","a","i","n">>, <<>>}
InputChunks ==
    {<<>>,
     <<";", " ">> \o KEY_TYPE \o <<"=", "a">>,
     <<";">> \o KEY_NAME \o <<"=", "a", ";">> \o KEY_DTYPE \o <<"=", "a", ";">>
            \o KEY_SHAPE \o <<"=", "1", ",", " ", "2">>,
     <<";", "N", "a", "m", "e", " ", "=", " ", "b", ";">> \o KEY_NAME \o <<"=", "a">>,
     <<";">> \o KEY_NAME \o <<"=", "a", ";">> \o KEY_DTYPE \o <<"=", "a", ";">>
            \o KEY_SHAPE \o <<"=", "x">>,
     <<";", "=", "a", ";", ";", " ">>}
BasicInputs ==
    {pre \o b \o c : pre \in {<<>>, <<" ">>}, b \in InputBases, c \in InputChunks}

\* a base followed by parameter chunks, each introduced by ';'
MaxParams == 3
ParamLists(chunks) == UNION {[1..k -> chunks] : k \in 0..MaxParams}
RECURSIVE WithParams(_, _)
WithParams(b, cs) ==
    IF cs = <<>> THEN b ELSE WithParams(b \o <<";">> \o Head(cs), Tail(cs))

ConfigChunks ==
    {KEY_TYPE \o <<"=", "a">>, <<"T","Y","P","E"," ","="," ","b">>, KEY_TYPE, KEY_NAME \o <<"=", "a">>, <<"=", "a">>}
TemplateChunks ==
    {KEY_NAME \o <<"=", "a">>, <<" ","N","A","M","E","=">>, KEY_TYPE \o <<"=", "a">>}
TensorChunks ==
    {KEY_NAME \o <<"=", "a">>, KEY_DTYPE \o <<"=", "a">>, KEY_SHAPE \o <<"=", "1">>,
     KEY_SHAPE \o <<"=", "x">>, <<"N","a","m","e","="," ","b">>, <<>>}
ParamInputs ==
    {WithParams(CONFIG_BASE, cs) : cs \in ParamLists(ConfigChunks)}
        \cup {WithParams(TEMPLATE_BASE, cs) : cs \in ParamLists(TemplateChunks)}
        \cup {WithParams(TENSOR_BASE, cs) : cs \in ParamLists(TensorChunks)}

\* bases under the reserved prefix that are no known base, bases outside
\* the reserved prefix, and what may follow either
FutureBases ==
    {RESERVED_PREFIX \o <<"f","u","t","u","r","e">>,
     RESERVED_PREFIX,
     RESERVED_PREFIX \o <<"M","o","d","e","l">>,
     CONFIG_BASE \o <<"2">>,
     TENSOR_BASE \o <<" ", "x">>}
ForeignBases ==
    {<<"t","e","x","t","/","p","l","a","i","n">>,
     <<>>,
     <<"A">> \o Tail(CONFIG_BASE),
     SubSeq(RESERVED_PREFIX, 1, Len(RESERVED_PREFIX) - 1),
     <<"x">> \o TENSOR_BASE}
RawTails ==
    {<<";">> \o s : s \in FieldStrings}
        \cup {<<>>, <<";"," ","f","o","o","=","b","a","r">>, <<" ",";"," "," ","x">>, <<";"," ","A"," ","="," ","b"," ",";"," ","a">>,
              <<";", " ">> \o KEY_TYPE \o <<"=", "a">>}
BaseInputs ==
    {pre \o b \o t \o post : pre \in {<<>>, <<" ">>}, b \in FutureBases \cup ForeignBases,
                             t \in RawTails, post \in {<<>>, <<" ">>}}
        \cup StringsUpTo({" "}, MaxFieldLen)

\* texts in the form Display writes: the base, then each parameter
\* introduced by "; "
SEP == <<";", " ">>
OVER_U64 == <<"1","8","4","4","6","7","4","4","0","7","3","7","0","9","5","5","1","6","1","6">>
LongShapes ==
    {OVER_U64, <<"1", ",">> \o OVER_U64, <<"x", ",">> \o OVER_U64,
     <<"1", ",", " ", "2", ",", "3">>}
TensorText(n, d, s) ==
    concat(<<TENSOR_BASE, SEP, KEY_NAME, <<"=">>, n, SEP, KEY_DTYPE, <<"=">>, d,
             SEP, KEY_SHAPE, <<"=">>, s>>)
DisplayInputs ==
    {concat(<<CONFIG_BASE, SEP, KEY_TYPE, <<"=">>, f>>) : f \in FieldStrings}
        \cup {concat(<<TEMPLATE_BASE, SEP, KEY_NAME, <<"=">>, f>>) : f \in FieldStrings}
        \cup {TensorText(n, d, <<"1">>) : n \in FieldStrings, d \in ShortStrings}
        \cup {TensorText(<<"a">>, <<"a">>, s) : s \in ShapeStrings \cup LongShapes}
        \cup {TensorText(<<"a">>, <<"a">>, s) \o <<";", "x">> : s \in ShapeStrings}
        \cup {RESERVED_PREFIX \o PlainBases[t] : t \in PlainTags}

\* the parameterless bases, possibly padded, and what may follow them
PlainInputs ==
    {pre \o RESERVED_PREFIX \o PlainBases[t] \o tail :
        pre \in {<<>>, <<" ">>}, t \in PlainTags, tail \in RawTails}

MediaInputs ==
    BasicInputs \cup ParamInputs \cup BaseInputs \cup DisplayInputs \cup PlainInputs

---------------------------------------------------------------------------
(* The media type driver: a value (drawn, or parsed from a drawn text) is
   serialised with Display and the text is parsed again with from_str *)

MediaIdle ==
    /\ mt_pc = "idle"
    /\ mt_input = None
    /\ mt_value = ErrEmpty
    /\ mt_text = None
    /\ mt_parsed = None

InitMedia ==
    /\ \/ /\ mt_pc = "value"
          /\ mt_input = None
          /\ mt_value \in {Ok(v) : v \in MediaValues}
       \/ /\ mt_pc = "input"
          /\ mt_input \in {Some(s) : s \in MediaInputs}
          /\ mt_value = ErrEmpty
    /\ mt_text = None
    /\ mt_parsed = None

\* let v = input.parse::<OllamaMediaType>()
ParseInput ==
    /\ mt_pc = "input"
    /\ mt_value' = from_str(mt_input[1])
    /\ mt_pc' = IF mt_value'.ok THEN "value" ELSE "done"
    /\ UNCHANGED <<mt_input, mt_text, mt_parsed, id_vars, bl_vars, lm_vars, sc_vars>>

\* let text = v.to_string()
Serialize ==
    /\ mt_pc = "value"
    /\ mt_text' = Some(fmt(mt_value.v))
    /\ mt_pc' = "text"
    /\ UNCHANGED <<mt_input, mt_value, mt_parsed, id_vars, bl_vars, lm_vars, sc_vars>>

\* let parsed = text.parse::<OllamaMediaType>()
Reparse ==
    /\ mt_pc = "text"
    /\ mt_parsed' = Some(from_str(mt_text[1]))
    /\ mt_pc' = "done"
    /\ UNCHANGED <<mt_input, mt_value, mt_text, id_vars, bl_vars, lm_vars, sc_vars>>

NextMedia == ParseInput \/ Serialize \/ Reparse

---------------------------------------------------------------------------
(* models.rs: ModelId and ModelId::normalize; lib.rs: parse_components *)

DEFAULT_HOST == <<"r","e","g","i","s","t","r","y",".","o","l","l","a","m","a",".","a","i">>
LIBRARY_NS == <<"l","i","b","r","a","r","y">>

ModelId(host, namespace, model, tag) ==
    [host |-> host, namespace |-> namespace, model |-> model, tag |-> tag]

\* normalize with one slip: the arm for any host with a namespace comes
\* before the arms for an absent host
normalize_host_arm_first(id) ==
    LET model_tag == concat(<<id.model, <<":">>, id.tag>>)
    IN IF IsSome(id.host) /\ IsSome(id.namespace)
       THEN concat(<<id.host[1], <<"/">>, id.namespace[1], <<"/">>, model_tag>>)
       ELSE IF IsSome(id.namespace) /\ id.namespace[1] # LIBRARY_NS
       THEN concat(<<id.namespace[1], <<"/">>, model_tag>>)
       ELSE model_tag

\* normalize with one slip: a host without a namespace is written out
normalize_keeps_host(id) ==
    LET model_tag == concat(<<id.model, <<":">>, id.tag>>)
    IN IF IsSome(id.host) /\ ~IsSome(id.namespace)
       THEN concat(<<id.host[1], <<"/">>, model_tag>>)
       ELSE model_tag

\* ModelId::normalize: the match on (host, namespace), arm by arm
normalize(id) ==
    LET h == id.host
        ns == id.namespace
        model_tag == concat(<<id.model, <<":">>, id.tag>>)
    IN CASE IsSome(h) /\ IsSome(ns) /\ h[1] = DEFAULT_HOST /\ ns[1] = LIBRARY_NS ->
               model_tag
         [] IsSome(h) /\ IsSome(ns) /\ h[1] = DEFAULT_HOST
               /\ ~(ns[1] = LIBRARY_NS) ->
               concat(<<ns[1], <<"/">>, model_tag>>)
         [] ~IsSome(h) /\ IsSome(ns) /\ ns[1] = LIBRARY_NS -> model_tag
         [] ~IsSome(h) /\ IsSome(ns) /\ ~(ns[1] = LIBRARY_NS) ->
               concat(<<ns[1], <<"/">>, model_tag>>)
         [] IsSome(h) /\ IsSome(ns) /\ ~(h[1] = DEFAULT_HOST) ->
               concat(<<h[1], <<"/">>, ns[1], <<"/">>, model_tag>>)
         [] OTHER -> model_tag

\* str::starts_with('.')
is_hidden(c) == c # <<>> /\ c[1] = "."

\* parse_components with one slip: only the tag is checked for a leading '.'
parse_components_tag_only(comps, include_hidden) ==
    IF ~(Len(comps) = 4 \/ Len(comps) = 3) THEN None
    ELSE IF ~include_hidden /\ is_hidden(comps[Len(comps)]) THEN None
    ELSE IF Len(comps) = 4
         THEN Some(ModelId(Some(comps[1]), Some(comps[2]), comps[3], comps[4]))
         ELSE Some(ModelId(None, Some(comps[1]), comps[2], comps[3]))

\* parse_components with one slip: the three-segment arm reads the first
\* segment as the host
parse_components_host_of_three(comps, include_hidden) ==
    IF ~(Len(comps) = 4 \/ Len(comps) = 3) THEN None
    ELSE IF ~include_hidden /\ is_hidden(comps[Len(comps)]) THEN None
    ELSE IF ~include_hidden
            /\ \E i \in 1..(Len(comps) - 1) : is_hidden(comps[i]) THEN None
    ELSE IF Len(comps) = 4
         THEN Some(ModelId(Some(comps[1]), Some(comps[2]), comps[3], comps[4]))
         ELSE Some(ModelId(Some(comps[1]), None, comps[2], comps[3]))

\* parse_components: Option<ModelId>
parse_components(comps, include_hidden) ==
    IF ~(Len(comps) = 4 \/ Len(comps) = 3) THEN None
    ELSE IF ~include_hidden /\ is_hidden(comps[Len(comps)]) THEN None
    ELSE IF ~include_hidden
            /\ \E i \in 1..(Len(comps) - 1) : is_hidden(comps[i]) THEN None
    ELSE IF Len(comps) = 4
         THEN Some(ModelId(Some(comps[1]), Some(comps[2]), comps[3], comps[4]))
         ELSE Some(ModelId(None, Some(comps[1]), comps[2], comps[3]))

MaxComps == 5

\* the path segments the driver draws
Segments == {LIBRARY_NS, DEFAULT_HOST, <<".","h","i","d">>, <<"p","h","i","4">>, <<"m","y","h","o","s","t">>}
SegmentLists == UNION {[1..k -> Segments] : k \in 0..MaxComps}

\* the identities the driver hands to normalize directly
DirectHosts ==
    {None, Some(DEFAULT_HOST), Some(<<"R","e","g","i","s","t","r","y",".","o","l","l","a","m","a",".","a","i">>),
     Some(<<"m","y","h","o","s","t">>), Some(LIBRARY_NS)}
DirectNamespaces ==
    {None, Some(LIBRARY_NS), Some(<<"L","i","b","r","a","r","y">>), Some(<<"a","p","p","l","e">>), Some(DEFAULT_HOST)}
DirectModelIds ==
    {ModelId(h, ns, m, t) : h \in DirectHosts, ns \in DirectNamespaces,
                            m \in {<<"p","h","i","4">>, <<>>}, t \in {<<"l","a","t","e","s","t">>, <<".","h","i","d">>}}

---------------------------------------------------------------------------
(* The identity driver: path segments are resolved with parse_components and
   the identity (resolved, or drawn) is named with normalize *)

IdentIdle ==
    /\ id_pc = "idle"
    /\ id_src = "idle"
    /\ id_comps = <<>>
    /\ id_hidden = FALSE
    /\ id_model = None
    /\ id_name = None

InitIdent ==
    /\ \/ /\ id_pc = "comps"
          /\ id_src = "path"
          /\ id_comps \in SegmentLists
          /\ id_hidden \in BOOLEAN
          /\ id_model = None
       \/ /\ id_pc = "id"
          /\ id_src = "direct"
          /\ id_comps = <<>>
          /\ id_hidden = FALSE
          /\ id_model \in {Some(m) : m \in DirectModelIds}
    /\ id_name = None

\* let id = parse_components(comps, include_hidden)?
ParseComponents ==
    /\ id_pc = "comps"
    /\ id_model' = parse_components(id_comps, id_hidden)
    /\ id_pc' = IF IsSome(id_model') THEN "id" ELSE "done"
    /\ UNCHANGED <<id_src, id_comps, id_hidden, id_name, mt_vars, bl_vars, lm_vars, sc_vars>>

\* let name = model_id.normalize()
Normalize ==
    /\ id_pc = "id"
    /\ id_name' = Some(normalize(id_model[1]))
    /\ id_pc' = "done"
    /\ UNCHANGED <<id_src, id_comps, id_hidden, id_model, mt_vars, bl_vars, lm_vars, sc_vars>>

NextIdent == ParseComponents \/ Normalize

---------------------------------------------------------------------------
(* lib.rs: digest_to_blob_path, build_blob_path_info, build_blob_infos *)

SHA256_COLON == <<"s","h","a","2","5","6",":">>
SHA256_DASH == <<"s","h","a","2","5","6","-">>

\* Path::join, on paths written with '/': an absolute argument replaces the
\* base, any other is appended after a separator
join(root, p) ==
    IF p # <<>> /\ p[1] = "/" THEN p
    ELSE IF root # <<>> /\ root[Len(root)] # "/" THEN root \o <<"/">> \o p
    ELSE root \o p

\* str::replacen(c, d, 1)
replace_first(s, c, d) ==
    [i \in 1..Len(s) |-> IF i = find_char(s, c) THEN d ELSE s[i]]

\* digest_to_blob_path with one slip: the fallback replaces the first ':' only
digest_to_blob_path_first_colon(blobs_root, digest) ==
    IF starts_with(digest, SHA256_COLON)
    THEN join(blobs_root,
              SHA256_DASH \o SubSeq(digest, Len(SHA256_COLON) + 1, Len(digest)))
    ELSE join(blobs_root, replace_first(digest, ":", "-"))

\* digest_to_blob_path
digest_to_blob_path(blobs_root, digest) ==
    IF starts_with(digest, SHA256_COLON)
    THEN join(blobs_root,
              SHA256_DASH \o SubSeq(digest, Len(SHA256_COLON) + 1, Len(digest)))
    ELSE join(blobs_root, replace(digest, ":", "-"))

\* u64: a value is written as four limbs of 16 bits, the most significant
\* first, so that sums near u64::MAX are computed at their full width
LIMB == 256 * 256
u64(n) == <<0, 0, 0, n>>
U64_MAX == <<LIMB - 1, LIMB - 1, LIMB - 1, LIMB - 1>>

\* a > b on u64
gt_u64(a, b) ==
    \E i \in 1..4 : a[i] > b[i] /\ \A j \in 1..(i - 1) : a[j] = b[j]

\* a + b on u64: the low 64 bits of the sum and whether it overflowed
add_u64(a, b) ==
    LET s4 == a[4] + b[4]
        s3 == a[3] + b[3] + (s4 \div LIMB)
        s2 == a[2] + b[2] + (s3 \div LIMB)
        s1 == a[1] + b[1] + (s2 \div LIMB)
    IN [sum |-> <<s1 % LIMB, s2 % LIMB, s3 % LIMB, s4 % LIMB>>,
        overflow |-> s1 >= LIMB]

LayerInfo(digest, media_type, size) ==
    [digest |-> digest, media_type |-> media_type, size |-> size]

\* fs::metadata(path).map(|m| m.len()): Some(len) for a file on disk, None
\* for an error
metadata_len(fs, path) == IF path \in DOMAIN fs THEN Some(fs[path]) ELSE None

BlobPathInfo(l, path, exists, actual_size, size_ok) ==
    [digest |-> l.digest, media_type |-> l.media_type, declared_size |-> l.size,
     path |-> path, exists |-> exists, size_ok |-> size_ok,
     actual_size |-> actual_size, primary |-> FALSE]

\* build_blob_path_info with one slip: size_ok compares the whole Option
build_blob_path_info_eq_option(l, blobs_root, fs) ==
    LET path == digest_to_blob_path(blobs_root, l.digest)
        meta == metadata_len(fs, path)
    IN IF IsSome(meta)
       THEN BlobPathInfo(l, path, TRUE, Some(meta[1]), Some(l.size = Some(meta[1])))
       ELSE BlobPathInfo(l, path, FALSE, None, None)

\* build_blob_path_info with one slip: a blob longer than declared passes
build_blob_path_info_at_least(l, blobs_root, fs) ==
    LET path == digest_to_blob_path(blobs_root, l.digest)
        meta == metadata_len(fs, path)
    IN IF IsSome(meta)
       THEN BlobPathInfo(l, path, TRUE, Some(meta[1]),
                         IF IsSome(l.size) THEN Some(~gt_u64(l.size[1], meta[1])) ELSE None)
       ELSE BlobPathInfo(l, path, FALSE, None, None)

\* build_blob_path_info
build_blob_path_info(l, blobs_root, fs) ==
    LET path == digest_to_blob_path(blobs_root, l.digest)
        meta == metadata_len(fs, path)
    IN IF IsSome(meta)
       THEN BlobPathInfo(l, path, TRUE, Some(meta[1]),
                         IF IsSome(l.size) THEN Some(l.size[1] = meta[1]) ELSE None)
       ELSE BlobPathInfo(l, path, FALSE, None, None)

\* the first loop of build_blob_infos, from layer i on: primary_digest_idx
\* after the last layer
RECURSIVE primary_digest_idx(_, _, _, _)
primary_digest_idx(layers, i, max_size, idx) ==
    IF i > Len(layers) THEN idx
    ELSE IF IsSome(layers[i].size) /\ gt_u64(layers[i].size[1], max_size)
         THEN primary_digest_idx(layers, i + 1, layers[i].size[1], Some(i))
         ELSE primary_digest_idx(layers, i + 1, max_size, idx)

\* build_blob_infos with one slip: the record of the config comes first
build_blob_infos_config_first(layers, config, blobs_root, fs) ==
    LET idx == primary_digest_idx(layers, 1, u64(0), None)
        primary_digest ==
            IF IsSome(idx) THEN Some(layers[idx[1]].digest)
            ELSE IF IsSome(config) THEN Some(config[1].digest)
            ELSE None
        out == (IF IsSome(config)
                THEN <<build_blob_path_info(config[1], blobs_root, fs)>>
                ELSE <<>>)
                 \o [i \in 1..Len(layers) |->
                        build_blob_path_info(layers[i], blobs_root, fs)]
    IN <<primary_digest, out>>

\* build_blob_infos: (primary_digest, out)
build_blob_infos(layers, config, blobs_root, fs) ==
    LET idx == primary_digest_idx(layers, 1, u64(0), None)
        primary_digest ==
            IF IsSome(idx) THEN Some(layers[idx[1]].digest)
            ELSE IF IsSome(config) THEN Some(config[1].digest)
            ELSE None
        out == [i \in 1..Len(layers) |->
                    build_blob_path_info(layers[i], blobs_root, fs)]
                 \o (IF IsSome(config)
                     THEN <<build_blob_path_info(config[1], blobs_root, fs)>>
                     ELSE <<>>)
    IN <<primary_digest, out>>

\* build_blob_infos of src/lib.rs: the same loop over the layers, the index
\* of the largest declared size, and the config as the fallback
lib_build_blob_infos(layers, config, blobs_root, fs) ==
    LET idx == primary_digest_idx(layers, 1, u64(0), None)
        primary_digest ==
            IF IsSome(idx) THEN Some(layers[idx[1]].digest)
            ELSE IF IsSome(config) THEN Some(config[1].digest)
            ELSE None
        out == [i \in 1..Len(layers) |->
                    build_blob_path_info(layers[i], blobs_root, fs)]
                 \o (IF IsSome(config)
                     THEN <<build_blob_path_info(config[1], blobs_root, fs)>>
                     ELSE <<>>)
    IN <<primary_digest, out>>

\* the first loop of build_blob_infos of src/main.rs, from layer i on:
\* primary_digest after the last layer
RECURSIVE main_primary_digest(_, _, _, _)
main_primary_digest(layers, i, max_size, primary_digest) ==
    IF i > Len(layers) THEN primary_digest
    ELSE IF IsSome(layers[i].size) /\ gt_u64(layers[i].size[1], max_size)
         THEN main_primary_digest(layers, i + 1, layers[i].size[1],
                                  Some(layers[i].digest))
         ELSE main_primary_digest(layers, i + 1, max_size, primary_digest)

\* build_blob_infos of src/main.rs: when the loop chose nothing, the first
\* layer is the fallback, and the config only when there is no layer
main_build_blob_infos(layers, config, blobs_root, fs) ==
    LET largest == main_primary_digest(layers, 1, u64(0), None)
        primary_digest ==
            IF IsSome(largest) THEN largest
            ELSE IF layers # <<>> THEN Some(layers[1].digest)
            ELSE IF IsSome(config) THEN Some(config[1].digest)
            ELSE None
        out == [i \in 1..Len(layers) |->
                    build_blob_path_info(layers[i], blobs_root, fs)]
                 \o (IF IsSome(config)
                     THEN <<build_blob_path_info(config[1], blobs_root, fs)>>
                     ELSE <<>>)
    IN <<primary_digest, out>>

MaxLayers == 3
MaxSize == 2

BLOBS_ROOT == <<"/","b","l","o","b","s">>
DIGEST_A == <<"s","h","a","2","5","6",":","1","a">>
DIGEST_B == <<"m","d","5",":","2","b">>
MEDIA_MODEL == RESERVED_PREFIX \o PlainBases["Model"]

\* declared sizes and file lengths
Sizes == {u64(n) : n \in 0..MaxSize}
OptionalSizes == {None} \cup {Some(n) : n \in Sizes}

\* the digests handed to digest_to_blob_path alone
Digests ==
    {DIGEST_A, DIGEST_B, SHA256_COLON, <<"s","h","a","2","5","6",":","1","2","3","4","a","b","c","d">>, <<"c","r","c","3","2",":","a","b","c","d">>, <<"S","H","A","2","5","6",":","a","b">>,
     <<"s","h","a","2","5","6">>, <<"a",":","b",":","c">>, <<"s","h","a","2","5","6","-","a","b">>, <<":">>, <<>>}
        \cup {SHA256_COLON \o s : s \in StringsUpTo({"a", ":", "-"}, MaxFieldLen)}
        \cup {<<"c">> \o s : s \in StringsUpTo({"a", ":", "-"}, MaxFieldLen)}
        \cup {<<"/">> \o s : s \in StringsUpTo({"a", ":"}, MaxFieldLen)}
        \cup {<<".">>, <<".", ".">>, <<".", ".", "/", "a">>, <<"a", "/", "b">>,
              <<"a", "/">>, SHA256_COLON \o <<"/", ".", ".", "/", ".", ".", "/", "a">>}

\* the records of a manifest
LayerInfos ==
    {LayerInfo(d, MEDIA_MODEL, sz) : d \in {DIGEST_A, DIGEST_B}, sz \in OptionalSizes}
ConfigInfos ==
    {LayerInfo(d, CONFIG_BASE, sz) : d \in {DIGEST_A, DIGEST_B},
                                     sz \in {None, Some(u64(MaxSize))}}
LayerLists == UNION {[1..k -> LayerInfos] : k \in 0..MaxLayers}

\* the files that may lie under the blobs root (the blobs of DIGEST_A and
\* DIGEST_B, and a file named as DIGEST_B is written), and the states of
\* the disk
FILE_A == <<"/","b","l","o","b","s","/","s","h","a","2","5","6","-","1","a">>
FILE_B == <<"/","b","l","o","b","s","/","m","d","5","-","2","b">>
BlobFiles == {FILE_A, FILE_B, <<"/","b","l","o","b","s","/","m","d","5",":","2","b">>}
PartialFunctions(D, R) == UNION {[S -> R] : S \in SUBSET D}
Disks == PartialFunctions(BlobFiles, Sizes)
\* two disks for whole manifests: nothing on it, and the blob of DIGEST_A
\* with length 1
ManifestDisks == {<<>>, [f \in {FILE_A} |-> u64(1)]}

---------------------------------------------------------------------------
(* The blob driver: a digest is mapped to its path, one record is checked
   against the disk, or the records of a manifest are listed and the primary
   digest chosen *)

BlobIdle ==
    /\ bl_pc = "idle"
    /\ bl_mode = "idle"
    /\ bl_digest = None
    /\ bl_record = None
    /\ bl_layers = <<>>
    /\ bl_config = None
    /\ bl_fs = <<>>
    /\ bl_path = None
    /\ bl_info = None
    /\ bl_primary = None
    /\ bl_infos = <<>>

InitBlob ==
    /\ bl_pc = "start"
    /\ \/ /\ bl_mode = "digest"
          /\ bl_digest \in {Some(d) : d \in Digests}
          /\ bl_record = None
          /\ bl_layers = <<>>
          /\ bl_config = None
          /\ bl_fs = <<>>
       \/ /\ bl_mode = "record"
          /\ bl_digest = None
          /\ bl_record \in {Some(l) : l \in LayerInfos \cup ConfigInfos}
          /\ bl_layers = <<>>
          /\ bl_config = None
          /\ bl_fs \in Disks
       \/ /\ bl_mode = "manifest"
          /\ bl_digest = None
          /\ bl_record = None
          /\ bl_layers \in LayerLists
          /\ bl_config \in {None} \cup {Some(c) : c \in ConfigInfos}
          /\ bl_fs \in ManifestDisks
    /\ bl_path = None
    /\ bl_info = None
    /\ bl_primary = None
    /\ bl_infos = <<>>

\* let path = digest_to_blob_path(blobs_root, digest)
MapDigest ==
    /\ bl_pc = "start" /\ bl_mode = "digest"
    /\ bl_path' = Some(digest_to_blob_path(BLOBS_ROOT, bl_digest[1]))
    /\ bl_pc' = "done"
    /\ UNCHANGED <<bl_mode, bl_digest, bl_record, bl_layers, bl_config, bl_fs,
                   bl_info, bl_primary, bl_infos, mt_vars, id_vars, lm_vars, sc_vars>>

\* let info = build_blob_path_info(l, blobs_root)
CheckRecord ==
    /\ bl_pc = "start" /\ bl_mode = "record"
    /\ bl_info' = Some(build_blob_path_info(bl_record[1], BLOBS_ROOT, bl_fs))
    /\ bl_pc' = "done"
    /\ UNCHANGED <<bl_mode, bl_digest, bl_record, bl_layers, bl_config, bl_fs,
                   bl_path, bl_primary, bl_infos, mt_vars, id_vars, lm_vars, sc_vars>>

\* let (primary_digest, infos) = build_blob_infos(layers, config, blobs_root)
BuildBlobInfos ==
    /\ bl_pc = "start" /\ bl_mode = "manifest"
    /\ LET r == build_blob_infos(bl_layers, bl_config, BLOBS_ROOT, bl_fs)
       IN bl_primary' = r[1] /\ bl_infos' = r[2]
    /\ bl_pc' = "done"
    /\ UNCHANGED <<bl_mode, bl_digest, bl_record, bl_layers, bl_config, bl_fs,
                   bl_path, bl_info, mt_vars, id_vars, lm_vars, sc_vars>>

NextBlob == MapDigest \/ CheckRecord \/ BuildBlobInfos

---------------------------------------------------------------------------
(* lib.rs: compute_total_size, build_listed_model; models.rs: ListedModel,
   ListedModel::new, ListedModel::into_verbose *)

\* a call either returns a value or panics
Return(v) == [panic |-> FALSE, v |-> v]
Panic == [panic |-> TRUE]

\* the two loops of compute_total_size over the records (the layers, then
\* the config), from record i on.  `sum += sz` is an unchecked u64 addition:
\* on overflow it panics in a build with overflow checks (the debug
\* profile) and wraps in a build without (the release profile)
RECURSIVE sum_declared(_, _, _, _, _)
sum_declared(records, i, sum, any, overflow_checks) ==
    IF i > Len(records) THEN Return(IF any THEN Some(sum) ELSE None)
    ELSE IF IsSome(records[i].size)
         THEN LET r == add_u64(sum, records[i].size[1])
              IN IF r.overflow /\ overflow_checks THEN Panic
                 ELSE sum_declared(records, i + 1, r.sum, TRUE, overflow_checks)
         ELSE sum_declared(records, i + 1, sum, any, overflow_checks)

\* compute_total_size
compute_total_size(layers, config, overflow_checks) ==
    sum_declared(layers \o (IF IsSome(config) THEN <<config[1]>> ELSE <<>>),
                 1, u64(0), FALSE, overflow_checks)

ManifestData(layers, config) == [layers |-> layers, config |-> config]

ListedModel(name, model_id, manifest_path, layers, config, total_size, mtime, primary_blob_path, blob_paths) ==
    [name |-> name, model_id |-> model_id, manifest_path |-> manifest_path,
     layers |-> layers, config |-> config, total_size |-> total_size,
     mtime |-> mtime, primary_blob_path |-> primary_blob_path,
     blob_paths |-> blob_paths]

\* the marking loop with one slip: only the first record of the primary
\* digest is marked
mark_primary_first_only(primary_digest, infos) ==
    [i \in 1..Len(infos) |->
        IF /\ IsSome(primary_digest)
           /\ infos[i].digest = primary_digest[1]
           /\ \A j \in 1..(i - 1) : infos[j].digest # primary_digest[1]
        THEN [infos[i] EXCEPT !.primary = TRUE]
        ELSE infos[i]]

\* if let Some(pd) = primary_digest { for bi in &mut infos { ... } }
mark_primary(primary_digest, infos) ==
    [i \in 1..Len(infos) |->
        IF IsSome(primary_digest) /\ infos[i].digest = primary_digest[1]
        THEN [infos[i] EXCEPT !.primary = TRUE]
        ELSE infos[i]]

\* primary_digest.as_ref().map(|d| digest_to_blob_path(blobs_root, d))
primary_path(primary_digest, blobs_root) ==
    IF IsSome(primary_digest)
    THEN Some(digest_to_blob_path(blobs_root, primary_digest[1]))
    ELSE None

\* build_listed_model with one slip: the manifest's config record is kept in
\* the record even when verbose is false
build_listed_model_keep_config(model_id, manifest, manifest_path, blobs_root, verbose, fs, mtime, overflow_checks) ==
    LET total == IF verbose
                 THEN compute_total_size(manifest.layers, manifest.config,
                                         overflow_checks)
                 ELSE Return(None)
        r == build_blob_infos(manifest.layers, manifest.config, blobs_root, fs)
        blob_paths == IF verbose THEN mark_primary(r[1], r[2]) ELSE <<>>
    IN IF total.panic THEN Panic
       ELSE Return(ListedModel(
                normalize(model_id), model_id, manifest_path,
                IF verbose THEN Some(manifest.layers) ELSE None,
                manifest.config,
                total.v,
                IF verbose THEN mtime ELSE None,
                IF verbose THEN primary_path(r[1], blobs_root) ELSE None,
                IF blob_paths # <<>> THEN Some(blob_paths) ELSE None))

\* build_listed_model; mtime is what compute_mtime reads for manifest_path
build_listed_model(model_id, manifest, manifest_path, blobs_root, verbose, fs, mtime, overflow_checks) ==
    LET total == IF verbose
                 THEN compute_total_size(manifest.layers, manifest.config,
                                         overflow_checks)
                 ELSE Return(None)
        r == build_blob_infos(manifest.layers, manifest.config, blobs_root, fs)
        blob_paths == IF verbose THEN mark_primary(r[1], r[2]) ELSE <<>>
    IN IF total.panic THEN Panic
       ELSE Return(ListedModel(
                normalize(model_id), model_id, manifest_path,
                IF verbose THEN Some(manifest.layers) ELSE None,
                IF verbose THEN manifest.config ELSE None,
                total.v,
                IF verbose THEN mtime ELSE None,
                IF verbose THEN primary_path(r[1], blobs_root) ELSE None,
                IF blob_paths # <<>> THEN Some(blob_paths) ELSE None))

\* ListedModel::new
new_listed_model(model_id, manifest_path) ==
    ListedModel(normalize(model_id), model_id, manifest_path,
                None, None, None, None, None, None)

\* ListedModel::into_verbose
into_verbose(self, manifest, blobs_root, fs, mtime, overflow_checks) ==
    LET total == compute_total_size(manifest.layers, manifest.config,
                                    overflow_checks)
        r == build_blob_infos(manifest.layers, manifest.config, blobs_root, fs)
    IN IF total.panic THEN Panic
       ELSE Return([self EXCEPT
                        !.layers = Some(manifest.layers),
                        !.config = manifest.config,
                        !.total_size = total.v,
                        !.mtime = mtime,
                        !.primary_blob_path = primary_path(r[1], blobs_root),
                        !.blob_paths = Some(mark_primary(r[1], r[2]))])

\* the manifests the record driver starts from: a few layers, among them
\* one of the largest size a manifest can declare
RecordLayers ==
    {LayerInfo(DIGEST_A, MEDIA_MODEL, None),
     LayerInfo(DIGEST_A, MEDIA_MODEL, Some(u64(1))),
     LayerInfo(DIGEST_B, MEDIA_MODEL, Some(u64(MaxSize))),
     LayerInfo(DIGEST_B, MEDIA_MODEL, Some(U64_MAX))}
RecordLayerLists == UNION {[1..k -> RecordLayers] : k \in 0..MaxLayers}
RECORD_ID == ModelId(Some(DEFAULT_HOST), Some(LIBRARY_NS), <<"m">>, <<"t">>)
RECORD_PATH == <<"/","m","/">> \o DEFAULT_HOST \o <<"/">> \o LIBRARY_NS
                   \o <<"/","m","/","t">>

---------------------------------------------------------------------------
(* lib.rs: relative_components, load_manifest, process_entry, scan_manifests *)

\* what WalkDir yields: Err(e), or Ok(entry) for a directory or a file at
\* root/comps; a file can be read or not, holds a manifest when its JSON
\* parses (None when it does not) and has the mtime compute_mtime reads
WalkError ==
    [kind |-> "error", comps |-> <<>>, readable |-> FALSE, manifest |-> None,
     mtime |-> None]
DirEntry(comps) ==
    [kind |-> "dir", comps |-> comps, readable |-> FALSE, manifest |-> None,
     mtime |-> None]
FileEntry(comps, readable, manifest, mtime) ==
    [kind |-> "file", comps |-> comps, readable |-> readable,
     manifest |-> manifest, mtime |-> mtime]

\* entry.path(): the root joined with the segments of the entry
RECURSIVE entry_path(_, _)
entry_path(root, comps) ==
    IF comps = <<>> THEN root
    ELSE entry_path(join(root, Head(comps)), Tail(comps))

\* relative_components, on the segments below the root
relative_components(comps) == IF comps = <<>> THEN None ELSE Some(comps)

\* a line of standard error
Line(msg, path) == [msg |-> msg, path |-> path]

\* what a call leaves: a panic, or a value and the lines it wrote
Done(v, stderr) == [panic |-> FALSE, v |-> v, stderr |-> stderr]
Aborted == [panic |-> TRUE, v |-> None, stderr |-> <<>>]

\* load_manifest with one slip: invalid JSON is skipped without a line
load_manifest_silent_json(path, entry) ==
    IF ~entry.readable
    THEN Done(None, <<Line("Failed reading manifest", path)>>)
    ELSE IF ~IsSome(entry.manifest)
    THEN Done(None, <<>>)
    ELSE Done(entry.manifest, <<>>)

\* load_manifest
load_manifest(path, entry) ==
    IF ~entry.readable
    THEN Done(None, <<Line("Failed reading manifest", path)>>)
    ELSE IF ~IsSome(entry.manifest)
    THEN Done(None, <<Line("Skipping invalid manifest JSON", path)>>)
    ELSE Done(entry.manifest, <<>>)

\* process_entry
process_entry(entry, root, blobs_root, include_hidden, verbose, fs, overflow_checks) ==
    IF entry.kind = "dir" THEN Done(None, <<>>)
    ELSE LET comps == relative_components(entry.comps)
         IN IF ~IsSome(comps) THEN Done(None, <<>>)
            ELSE LET id == parse_components(comps[1], include_hidden)
                     manifest_path == entry_path(root, entry.comps)
                     manifest == load_manifest(manifest_path, entry)
                 IN IF ~IsSome(id) THEN Done(None, <<>>)
                    ELSE IF ~IsSome(manifest.v) THEN manifest
                    ELSE LET m == build_listed_model(
                                      id[1], manifest.v[1], manifest_path,
                                      blobs_root, verbose, fs, entry.mtime,
                                      overflow_checks)
                         IN IF m.panic THEN Aborted
                            ELSE Done(Some(m.v), <<>>)

\* the bytes of the characters of a name, in ascending order
ByteOrder ==
    <<".", "/">> \o Digits \o <<":">> \o UpperChars \o LowerChars
byte(c) == CHOOSE i \in 1..Len(ByteOrder) : ByteOrder[i] = c

\* <str as Ord>::cmp(a, b) is not Greater: byte-wise lexicographic order
RECURSIVE le_str(_, _)
le_str(a, b) ==
    IF a = <<>> THEN TRUE
    ELSE IF b = <<>> THEN FALSE
    ELSE IF Head(a) = Head(b) THEN le_str(Tail(a), Tail(b))
    ELSE byte(Head(a)) < byte(Head(b))

\* slice::sort_unstable_by(|a, b| a.name.cmp(&b.name)): the elements in
\* ascending order of name; the order of elements that compare equal is
\* not specified
sort_unstable_by_name(models) ==
    {[i \in 1..Len(models) |-> models[f[i]]] :
        f \in {g \in [1..Len(models) -> 1..Len(models)] :
                  /\ \A i, j \in 1..Len(models) : i # j => g[i] # g[j]
                  /\ \A i \in 1..(Len(models) - 1) :
                         le_str(models[g[i]].name, models[g[i + 1]].name)}}

---------------------------------------------------------------------------
(* The record driver: the ListedModel of a manifest is built by
   build_listed_model, or by ListedModel::new and then into_verbose *)

RecordIdle ==
    /\ lm_pc = "idle"
    /\ lm_layers = <<>>
    /\ lm_config = None
    /\ lm_fs = <<>>
    /\ lm_mtime = None
    /\ lm_verbose = FALSE
    /\ lm_listed = None

InitRecord ==
    /\ lm_pc = "start"
    /\ lm_layers \in RecordLayerLists
    /\ lm_config \in {None} \cup {Some(c) : c \in ConfigInfos}
    /\ lm_fs \in ManifestDisks
    /\ lm_mtime \in {None, Some(u64(1))}
    /\ lm_verbose \in BOOLEAN
    /\ lm_listed = None

\* let m = build_listed_model(id, manifest, path, blobs_root, verbose)
BuildListedModel ==
    /\ lm_pc = "start"
    /\ \E overflow_checks \in BOOLEAN :
          LET r == build_listed_model(RECORD_ID, ManifestData(lm_layers, lm_config),
                                      RECORD_PATH, BLOBS_ROOT, lm_verbose, lm_fs,
                                      lm_mtime, overflow_checks)
          IN IF r.panic THEN lm_pc' = "panicked" /\ lm_listed' = None
             ELSE lm_pc' = "built" /\ lm_listed' = Some(r.v)
    /\ UNCHANGED <<lm_layers, lm_config, lm_fs, lm_mtime, lm_verbose, mt_vars, id_vars, bl_vars, sc_vars>>

\* let m = ListedModel::new(id, path), the first step of the other way to a
\* verbose record
NewListedModel ==
    /\ lm_pc = "start"
    /\ lm_verbose
    /\ lm_listed' = Some(new_listed_model(RECORD_ID, RECORD_PATH))
    /\ lm_pc' = "new"
    /\ UNCHANGED <<lm_layers, lm_config, lm_fs, lm_mtime, lm_verbose, mt_vars, id_vars, bl_vars, sc_vars>>

\* let m = m.into_verbose(manifest, blobs_root)
IntoVerbose ==
    /\ lm_pc = "new"
    /\ \E overflow_checks \in BOOLEAN :
          LET r == into_verbose(lm_listed[1], ManifestData(lm_layers, lm_config),
                                BLOBS_ROOT, lm_fs, lm_mtime, overflow_checks)
          IN IF r.panic THEN lm_pc' = "panicked" /\ lm_listed' = None
             ELSE lm_pc' = "verbose" /\ lm_listed' = Some(r.v)
    /\ UNCHANGED <<lm_layers, lm_config, lm_fs, lm_mtime, lm_verbose, mt_vars, id_vars, bl_vars, sc_vars>>

NextRecord == BuildListedModel \/ NewListedModel \/ IntoVerbose

---------------------------------------------------------------------------
(* The scanner: scan_manifests walks the entries below the manifests root,
   one per step, then sorts the models and returns them *)

MaxEntries == 3

MANIFESTS_ROOT == <<"/", "m">>
SEG_M == <<"m">>
SEG_T == <<"t">>

\* a manifest of one small layer, and one whose declared sizes add up to
\* more than u64::MAX
SMALL_MANIFEST ==
    ManifestData(<<LayerInfo(DIGEST_A, MEDIA_MODEL, Some(u64(1)))>>, None)
BIG_MANIFEST ==
    ManifestData(<<LayerInfo(DIGEST_B, MEDIA_MODEL, Some(U64_MAX)),
                   LayerInfo(DIGEST_A, MEDIA_MODEL, Some(u64(1)))>>, None)

\* the entries a traversal may meet: an error, a directory, two manifests
\* of one display name, one whose name differs in case, a hidden one, one
\* too shallow, one that cannot be read, one that is no JSON, one with the
\* big manifest
ScanEntries ==
    {WalkError,
     DirEntry(<<LIBRARY_NS>>),
     FileEntry(<<LIBRARY_NS, SEG_M, SEG_T>>, TRUE, Some(SMALL_MANIFEST), Some(u64(1))),
     FileEntry(<<DEFAULT_HOST, LIBRARY_NS, SEG_M, SEG_T>>, TRUE, Some(SMALL_MANIFEST), None),
     FileEntry(<<LIBRARY_NS, <<"M">>, SEG_T>>, TRUE, Some(SMALL_MANIFEST), None),
     FileEntry(<<LIBRARY_NS, SEG_M, <<".", "t">>>>, TRUE, Some(SMALL_MANIFEST), None),
     FileEntry(<<SEG_M, SEG_T>>, TRUE, Some(SMALL_MANIFEST), None),
     FileEntry(<<LIBRARY_NS, SEG_M, <<"u">>>>, FALSE, None, None),
     FileEntry(<<LIBRARY_NS, SEG_M, <<"j">>>>, TRUE, None, None),
     FileEntry(<<LIBRARY_NS, <<"b">>, SEG_T>>, TRUE, Some(BIG_MANIFEST), None)}

\* a traversal yields no entry twice
Traversals ==
    UNION {{es \in [1..k -> ScanEntries] :
               \A i, j \in 1..k : i # j => es[i] # es[j]} : k \in 0..MaxEntries}

\* the build profile matters to a verbose scan only
ScanArgs ==
    {a \in [include_hidden : BOOLEAN, verbose : BOOLEAN, overflow_checks : BOOLEAN] :
        a.overflow_checks => a.verbose}

ScanIdle ==
    /\ sc_pc = "idle"
    /\ sc_entries = <<>>
    /\ sc_args = [include_hidden |-> FALSE, verbose |-> FALSE, overflow_checks |-> FALSE]
    /\ sc_pos = 1
    /\ sc_models = <<>>
    /\ sc_stderr = <<>>

\* let mut models = Vec::new(); the traversal is about to start
InitScan ==
    /\ sc_pc = "scan"
    /\ sc_entries \in Traversals
    /\ sc_args \in ScanArgs
    /\ sc_pos = 1
    /\ sc_models = <<>>
    /\ sc_stderr = <<>>

\* one turn of the loop of scan_manifests
VisitEntry ==
    /\ sc_pc = "scan"
    /\ sc_pos <= Len(sc_entries)
    /\ sc_pos' = sc_pos + 1
    /\ LET entry == sc_entries[sc_pos]
           r == process_entry(entry, MANIFESTS_ROOT, BLOBS_ROOT,
                              sc_args.include_hidden, sc_args.verbose,
                              <<>>, sc_args.overflow_checks)
       IN IF entry.kind = "error"
          THEN /\ sc_stderr' = Append(sc_stderr, Line("Skipping entry error", <<>>))
               /\ UNCHANGED <<sc_pc, sc_models>>
          ELSE IF r.panic
          THEN /\ sc_pc' = "panicked"
               /\ UNCHANGED <<sc_models, sc_stderr>>
          ELSE /\ sc_models' = IF IsSome(r.v) THEN Append(sc_models, r.v[1])
                               ELSE sc_models
               /\ sc_stderr' = sc_stderr \o r.stderr
               /\ UNCHANGED sc_pc
    /\ UNCHANGED <<sc_entries, sc_args, mt_vars, id_vars, bl_vars, lm_vars>>

\* models.sort_unstable_by(|a, b| a.name.cmp(&b.name)); models
SortAndReturn ==
    /\ sc_pc = "scan"
    /\ sc_pos > Len(sc_entries)
    /\ sc_models' \in sort_unstable_by_name(sc_models)
    /\ sc_pc' = "returned"
    /\ UNCHANGED <<sc_entries, sc_args, sc_pos, sc_stderr, mt_vars, id_vars,
                   bl_vars, lm_vars>>

NextScan == VisitEntry \/ SortAndReturn

---------------------------------------------------------------------------
(* The three drivers, each with the variables of the others at rest *)

MediaInit == InitMedia /\ IdentIdle /\ BlobIdle /\ RecordIdle /\ ScanIdle
IdentInit == InitIdent /\ MediaIdle /\ BlobIdle /\ RecordIdle /\ ScanIdle
BlobInit == InitBlob /\ MediaIdle /\ IdentIdle /\ RecordIdle /\ ScanIdle
RecordInit == InitRecord /\ MediaIdle /\ IdentIdle /\ BlobIdle /\ ScanIdle
ScanInit == InitScan /\ MediaIdle /\ IdentIdle /\ BlobIdle /\ RecordIdle

SpecMedia == MediaInit /\ [][NextMedia]_vars
SpecIdent == IdentInit /\ [][NextIdent]_vars
SpecBlob == BlobInit /\ [][NextBlob]_vars
SpecRecord == RecordInit /\ [][NextRecord]_vars
SpecScan == ScanInit /\ [][NextScan]_vars

Init == MediaInit \/ IdentInit \/ BlobInit \/ RecordInit \/ ScanInit
Next == NextMedia \/ NextIdent \/ NextBlob \/ NextRecord \/ NextScan
Spec == Init /\ [][Next]_vars

---------------------------------------------------------------------------
(* Properties of the media type grammar *)

\* a string field that from_str reads back unchanged: no ';' (a parameter
\* ends there) and no blank at either end (values are trimmed)
CleanField(s) == trim(s) = s /\ find_char(s, ";") = 0

\* the base of a text: the trimmed part before the first ';'
BaseOf(s) == trim(SubSeq(s, 1, IF find_char(s, ";") = 0 THEN Len(s)
                                 ELSE find_char(s, ";") - 1))

KnownBases ==
    {CONFIG_BASE, TEMPLATE_BASE, TENSOR_BASE}
        \cup {RESERVED_PREFIX \o PlainBases[t] : t \in PlainTags}

\* the values from_str can produce
WellFormedValue(v) ==
    CASE v.tag = "Config" -> CleanField(v.config_type)
      [] v.tag = "Template" -> IsSome(v.name) => CleanField(v.name[1])
      [] v.tag = "Tensor" ->
            /\ CleanField(v.name) /\ CleanField(v.dtype) /\ CleanField(v.shape_raw)
            /\ parse_shape(v.shape_raw).ok
            /\ v.shape = parse_shape(v.shape_raw).shape
      [] v.tag = "Unknown" ->
            /\ v.raw # <<>> /\ trim(v.raw) = v.raw
            /\ starts_with(BaseOf(v.raw), RESERVED_PREFIX)
            /\ BaseOf(v.raw) \notin KnownBases
      [] OTHER -> TRUE

HasBlank(s) == \E i \in 1..Len(s) : is_whitespace(s[i])

\* the driver started from a value and has serialised and parsed it
RoundTripDone == mt_pc = "done" /\ mt_input = None

\* C1 as stated: every value, whatever its fields hold (an Unknown with
\* blanks in its text excepted), is parsed back from its own serialisation
C1_RoundTripEveryValue ==
    (RoundTripDone /\ ~(mt_value.v.tag = "Unknown" /\ HasBlank(mt_value.v.raw)))
        => mt_parsed = Some(mt_value)

\* C1, amended: every value whose string fields hold no ';' and no blank at
\* either end, whose tensor shape is the one parse_shape reads from
\* shape_raw, and whose Unknown text is a trimmed text with a reserved,
\* unrecognised base, is parsed back from its own serialisation
C1_RoundTripWellFormed ==
    (RoundTripDone /\ WellFormedValue(mt_value.v)) => mt_parsed = Some(mt_value)

\* a well-formed tensor whose shape_raw is not the canonical text of its
\* shape has made the round trip
C1_Witness ==
    /\ RoundTripDone
    /\ WellFormedValue(mt_value.v)
    /\ mt_value.v.tag = "Tensor"
    /\ IsSome(mt_value.v.shape)
    /\ Len(mt_value.v.shape[1]) >= 1
    /\ mt_value.v.shape_raw # fmt_shape(mt_value.v.shape[1])

\* from_str has run on the text the driver drew
Parsed == IsSome(mt_input) /\ mt_pc # "input"

\* the drawn text without the blanks around it, and its base
InputText == trim(mt_input[1])
InputBase == BaseOf(InputText)

\* C11: a text whose base starts with the reserved prefix and is no known
\* base parses to an Unknown that carries the whole trimmed text, and that
\* Unknown serialises to exactly the trimmed text
C11_UnknownPreserved ==
    (Parsed /\ starts_with(InputBase, RESERVED_PREFIX) /\ InputBase \notin KnownBases)
        => /\ mt_value = Ok(Unknown(InputText))
           /\ mt_pc \in {"text", "done"} => mt_text = Some(InputText)

\* a padded text with a reserved unknown base and parameters after it has
\* been parsed and serialised
C11_Witness ==
    /\ Parsed
    /\ mt_pc \in {"text", "done"}
    /\ mt_value.ok
    /\ mt_value.v.tag = "Unknown"
    /\ mt_input[1] # InputText
    /\ find_char(InputText, "=") > find_char(InputText, ";")
    /\ find_char(InputText, ";") > 0

Chunks(s) == Tail(split(trim(s), ";"))
KeyOf(c) == trim(SubSeq(c, 1, IF find_char(c, "=") = 0 THEN Len(c)
                                ELSE find_char(c, "=") - 1))
ValueOf(c) == IF find_char(c, "=") = 0 THEN <<>>
              ELSE SubSeq(c, find_char(c, "=") + 1, Len(c))
Names(c, key) == eq_ignore_ascii_case(KeyOf(c), key)
HasParam(s, key) == \E i \in 1..Len(Chunks(s)) : Names(Chunks(s)[i], key)
FirstValue(s, key) ==
    ValueOf(Chunks(s)[CHOOSE i \in 1..Len(Chunks(s)) :
                          /\ Names(Chunks(s)[i], key)
                          /\ \A j \in 1..(i - 1) : ~Names(Chunks(s)[j], key)])

\* C13: a config text without a type parameter is a MissingParam("type")
\* and one with it is a Config of that value; a tensor text is a
\* MissingParam of the first of name, dtype, shape it lacks, whatever its
\* shape holds; a template text always parses, its name absent when it has
\* no name parameter
C13_RequiredParams ==
    Parsed =>
        /\ InputBase = CONFIG_BASE =>
               mt_value = IF HasParam(InputText, KEY_TYPE)
                          THEN Ok(Config(trim(FirstValue(InputText, KEY_TYPE))))
                          ELSE ErrMissingParam(KEY_TYPE)
        /\ InputBase = TENSOR_BASE =>
               IF ~HasParam(InputText, KEY_NAME) THEN mt_value = ErrMissingParam(KEY_NAME)
               ELSE IF ~HasParam(InputText, KEY_DTYPE) THEN mt_value = ErrMissingParam(KEY_DTYPE)
               ELSE IF ~HasParam(InputText, KEY_SHAPE) THEN mt_value = ErrMissingParam(KEY_SHAPE)
               ELSE mt_value.ok \/ mt_value.err = "InvalidShapeComponent"
        /\ InputBase = TEMPLATE_BASE =>
               /\ mt_value.ok
               /\ mt_value.v.tag = "Template"
               /\ ~HasParam(InputText, KEY_NAME) => mt_value.v.name = None

\* a tensor text with a name, without a dtype and with a shape that is no
\* list of numbers has been answered with MissingParam("dtype")
C13_Witness ==
    /\ Parsed
    /\ InputBase = TENSOR_BASE
    /\ HasParam(InputText, KEY_NAME)
    /\ ~HasParam(InputText, KEY_DTYPE)
    /\ HasParam(InputText, KEY_SHAPE)
    /\ ~parse_shape(FirstValue(InputText, KEY_SHAPE)).ok
    /\ mt_value = ErrMissingParam(KEY_DTYPE)

\* the drawn text is a tensor text with its three parameters
ShapeRead ==
    /\ Parsed
    /\ InputBase = TENSOR_BASE
    /\ HasParam(InputText, KEY_NAME)
    /\ HasParam(InputText, KEY_DTYPE)
    /\ HasParam(InputText, KEY_SHAPE)

\* the value of its shape parameter without the blanks around it, and the
\* non-empty trimmed parts between its commas
ShapeValue == trim(FirstValue(InputText, KEY_SHAPE))
ShapeParts ==
    SelectSeq([i \in 1..Len(split(ShapeValue, ",")) |-> trim(split(ShapeValue, ",")[i])],
              LAMBDA q : q # <<>>)

\* a part written as a non-negative integer (digits, possibly after a '+'),
\* and one that is at most u64::MAX
NumeralDigits(q) == IF Len(q) > 1 /\ q[1] = "+" THEN Tail(q) ELSE q
IsNumeral(q) ==
    /\ NumeralDigits(q) # <<>>
    /\ \A i \in 1..Len(NumeralDigits(q)) : IsDigit(NumeralDigits(q)[i])
FitsU64(q) == IsNumeral(q) /\ ~overflows_u64(NumeralDigits(q))

\* the tensor from_str answered keeps the shape value and lists the parts
ShapeListed ==
    /\ mt_value.ok
    /\ mt_value.v.shape_raw = ShapeValue
    /\ IF ShapeValue = <<>> THEN mt_value.v.shape = None
       ELSE /\ IsSome(mt_value.v.shape)
            /\ Len(mt_value.v.shape[1]) = Len(ShapeParts)
            /\ \A i \in 1..Len(ShapeParts) :
                   u64_to_string(mt_value.v.shape[1][i])
                       = strip_zeros(NumeralDigits(ShapeParts[i]))

\* from_str answered InvalidShapeComponent with the first part not in ok
ShapeRefused(ok(_)) ==
    \E i \in 1..Len(ShapeParts) :
        /\ ~ok(ShapeParts[i])
        /\ \A j \in 1..(i - 1) : ok(ShapeParts[j])
        /\ mt_value = ErrInvalidShapeComponent(ShapeParts[i])

\* C14 as stated: the shape is the list of the non-empty trimmed parts when
\* every one of them is written as a non-negative integer (absent when the
\* value is blank, an empty list when it holds commas only), shape_raw is
\* the value, and the first part that is no non-negative integer is refused
C14_ShapeGrammarAnyInteger ==
    ShapeRead =>
        IF \A i \in 1..Len(ShapeParts) : IsNumeral(ShapeParts[i])
        THEN ShapeListed ELSE ShapeRefused(IsNumeral)

\* C14, amended: the same with "non-negative integer" read as a
\* non-negative integer of at most u64::MAX
C14_ShapeGrammarU64 ==
    ShapeRead =>
        IF \A i \in 1..Len(ShapeParts) : FitsU64(ShapeParts[i])
        THEN ShapeListed ELSE ShapeRefused(FitsU64)

\* the text with shape "1, 2,3" has been parsed to the shape [1, 2, 3] and
\* keeps "1, 2,3" as shape_raw
C14_Witness ==
    /\ ShapeRead
    /\ mt_value.ok
    /\ mt_value.v.shape = Some(<<1, 2, 3>>)
    /\ mt_value.v.shape_raw = <<"1", ",", " ", "2", ",", "3">>

\* the text Display is to write for a value: the base, then the parameters
\* of the variant in their order, each introduced by "; "
DisplayForm(v) ==
    CASE v.tag = "Config" -> concat(<<CONFIG_BASE, SEP, KEY_TYPE, <<"=">>, v.config_type>>)
      [] v.tag = "Template" ->
            IF IsSome(v.name) THEN concat(<<TEMPLATE_BASE, SEP, KEY_NAME, <<"=">>, v.name[1]>>)
            ELSE TEMPLATE_BASE
      [] v.tag = "Tensor" -> TensorText(v.name, v.dtype, v.shape_raw)
      [] v.tag = "Unknown" -> v.raw
      [] OTHER -> RESERVED_PREFIX \o PlainBases[v.tag]

\* Display has written the value
Serialized == mt_pc \in {"text", "done"} /\ IsSome(mt_text)

\* the text after a prefix p of s
After(s, p) == SubSeq(s, Len(p) + 1, Len(s))

\* the ways to read s as a tensor text in display form: the places where
\* its dtype and its shape parameter start
TensorReadings(s) ==
    LET head == concat(<<TENSOR_BASE, SEP, KEY_NAME, <<"=">>>>)
        at(i, m) == i + Len(m) - 1 <= Len(s) /\ SubSeq(s, i, i + Len(m) - 1) = m
        dtypes == {i \in (Len(head) + 1)..Len(s) : at(i, concat(<<SEP, KEY_DTYPE, <<"=">>>>))}
    IN IF ~starts_with(s, head) THEN {}
       ELSE UNION {{[name |-> SubSeq(s, Len(head) + 1, i - 1),
                     dtype |-> SubSeq(s, i + Len(KEY_DTYPE) + 3, j - 1),
                     shape |-> SubSeq(s, j + Len(KEY_SHAPE) + 3, Len(s))] :
                        j \in {k \in (i + Len(KEY_DTYPE) + 3)..Len(s) :
                                   at(k, concat(<<SEP, KEY_SHAPE, <<"=">>>>))}} :
                   i \in dtypes}

\* s is in display form for a known variant with fields that satisfy ok
InDisplayForm(s, ok(_), okShape(_)) ==
    \/ /\ starts_with(s, concat(<<CONFIG_BASE, SEP, KEY_TYPE, <<"=">>>>))
       /\ ok(After(s, concat(<<CONFIG_BASE, SEP, KEY_TYPE, <<"=">>>>)))
    \/ s = TEMPLATE_BASE
    \/ /\ starts_with(s, concat(<<TEMPLATE_BASE, SEP, KEY_NAME, <<"=">>>>))
       /\ ok(After(s, concat(<<TEMPLATE_BASE, SEP, KEY_NAME, <<"=">>>>)))
    \/ \E r \in TensorReadings(s) :
           ok(r.name) /\ ok(r.dtype) /\ ok(r.shape) /\ okShape(r.shape)
    \/ \E t \in PlainTags : s = RESERVED_PREFIX \o PlainBases[t]

AnyField(f) == TRUE
ShapeParses(f) == parse_shape(f).ok

\* every value is written in display form
DisplayWritten == Serialized => mt_text = Some(DisplayForm(mt_value.v))

\* C15 as stated: every value is written in display form, and every text in
\* display form for a known variant is parsed and written back as it is
C15_CanonicalEveryText ==
    /\ DisplayWritten
    /\ (Parsed /\ InDisplayForm(mt_input[1], AnyField, AnyField)) =>
           /\ mt_value.ok
           /\ Serialized => mt_text = mt_input

\* C15, amended: every value is written in display form, and every text in
\* display form for a known variant whose parameter values hold no ';' and
\* no blank at either end, and whose shape value parse_shape accepts, is
\* parsed and written back as it is
C15_CanonicalCleanText ==
    /\ DisplayWritten
    /\ (Parsed /\ InDisplayForm(mt_input[1], CleanField, ShapeParses)) =>
           /\ mt_value.ok
           /\ Serialized => mt_text = mt_input

\* a tensor text in display form with clean fields and a shape of two
\* dimensions has been parsed and written back
C15_Witness ==
    /\ Parsed
    /\ Serialized
    /\ InDisplayForm(mt_input[1], CleanField, ShapeParses)
    /\ mt_value.v.tag = "Tensor"
    /\ IsSome(mt_value.v.shape)
    /\ Len(mt_value.v.shape[1]) = 2
    /\ mt_text = mt_input

---------------------------------------------------------------------------
(* Properties of the identity resolver and of canonical naming *)

\* normalize has named the identity id_model[1]
Named == id_pc = "done" /\ IsSome(id_model) /\ IsSome(id_name)

ModelTag(id) == id.model \o <<":">> \o id.tag

\* the host is absent or is exactly the default host
HostIsDefault(id) == id.host = None \/ id.host = Some(DEFAULT_HOST)

\* C4: with a namespace present, the name is model:tag for namespace
\* "library" under an absent or default host, namespace/model:tag for another
\* namespace under an absent or default host, and host/namespace/model:tag
\* under every other host ("library" included); defaults are compared exactly
C4_NamingWithNamespace ==
    (Named /\ IsSome(id_model[1].namespace)) =>
        LET id == id_model[1]
            ns == id.namespace[1]
        IN id_name[1] =
              IF HostIsDefault(id)
              THEN IF ns = LIBRARY_NS THEN ModelTag(id)
                   ELSE ns \o <<"/">> \o ModelTag(id)
              ELSE id.host[1] \o <<"/">> \o ns \o <<"/">> \o ModelTag(id)

\* an identity with another host and namespace "library" has been named
C4_Witness ==
    /\ Named
    /\ IsSome(id_model[1].host)
    /\ id_model[1].host[1] # DEFAULT_HOST
    /\ id_model[1].namespace = Some(LIBRARY_NS)
    /\ Len(id_name[1]) > Len(ModelTag(id_model[1]))

\* C5: normalize always returns a name, and with the namespace absent the
\* name is model:tag whatever the host is
C5_NamingWithoutNamespace ==
    /\ (id_pc = "done" /\ IsSome(id_model)) => IsSome(id_name)
    /\ (Named /\ id_model[1].namespace = None) => id_name[1] = ModelTag(id_model[1])

\* an identity with a host other than the default and no namespace has been
\* named
C5_Witness ==
    /\ Named
    /\ id_model[1].namespace = None
    /\ IsSome(id_model[1].host)
    /\ id_model[1].host[1] # DEFAULT_HOST

\* parse_components has been applied to id_comps
Resolved == id_src = "path" /\ id_pc # "comps"

NoHiddenSegment(comps) == \A i \in 1..Len(comps) : ~(comps[i] # <<>> /\ comps[i][1] = ".")

\* C6: a segment list is accepted exactly when it has 3 or 4 segments and
\* either include_hidden is set or no segment, at any position, begins
\* with '.'
C6_Acceptance ==
    Resolved =>
        (IsSome(id_model) <=>
            /\ Len(id_comps) \in {3, 4}
            /\ (id_hidden \/ NoHiddenSegment(id_comps)))

\* a four-segment list whose only hidden segment is its first one has been
\* rejected without include_hidden
C6_Witness ==
    /\ Resolved
    /\ Len(id_comps) = 4
    /\ ~id_hidden
    /\ ~NoHiddenSegment(<<id_comps[1]>>)
    /\ NoHiddenSegment(Tail(id_comps))
    /\ id_model = None

\* C7: an accepted list maps by position: four segments give (host,
\* namespace, model, tag), three give (none, namespace, model, tag); the
\* host is present exactly for four segments; a list accepted without
\* include_hidden gives the same identity with it
C7_PositionalMapping ==
    (Resolved /\ IsSome(id_model)) =>
        LET n == Len(id_comps)
            id == id_model[1]
        IN /\ id.tag = id_comps[n]
           /\ id.model = id_comps[n - 1]
           /\ id.namespace = Some(id_comps[n - 2])
           /\ id.host = (IF n = 4 THEN Some(id_comps[1]) ELSE None)
           /\ (IsSome(id.host) <=> n = 4)
           /\ (~id_hidden => parse_components(id_comps, TRUE) = id_model)

\* a three-segment list has been accepted without include_hidden
C7_Witness ==
    /\ Resolved
    /\ IsSome(id_model)
    /\ Len(id_comps) = 3
    /\ ~id_hidden

---------------------------------------------------------------------------
(* Properties of the digest-to-path mapper and of the blob checker *)

\* build_blob_infos has run on the manifest
Listed == bl_mode = "manifest" /\ bl_pc = "done"

Declares(l) == l.size # None
SomeLayerDeclares == \E i \in 1..Len(bl_layers) : Declares(bl_layers[i])

\* the earliest layer among those of the largest declared size
LargestLayer ==
    CHOOSE i \in 1..Len(bl_layers) :
        /\ Declares(bl_layers[i])
        /\ \A j \in 1..Len(bl_layers) :
              Declares(bl_layers[j]) =>
                  /\ ~gt_u64(bl_layers[j].size[1], bl_layers[i].size[1])
                  /\ (bl_layers[j].size[1] = bl_layers[i].size[1] => i <= j)

\* C2: whenever some layer declares a size, the primary digest is that of
\* the layer of the largest declared size, the earliest one on a tie
C2_PrimaryIsLargestLayer ==
    (Listed /\ SomeLayerDeclares) => bl_primary = Some(bl_layers[LargestLayer].digest)

LayerDigests == {bl_layers[i].digest : i \in 1..Len(bl_layers)}

\* C3: with no layer declaring a size the primary digest is the config's
\* when there is a config and absent when there is none, and the config is
\* never the choice while some layer declares a size
C3_ConfigFallback ==
    Listed =>
        /\ (~SomeLayerDeclares /\ IsSome(bl_config)) =>
               bl_primary = Some(bl_config[1].digest)
        /\ bl_primary = None <=> (~SomeLayerDeclares /\ bl_config = None)
        /\ SomeLayerDeclares => bl_primary \in {Some(d) : d \in LayerDigests}

\* digest_to_blob_path has mapped bl_digest
Mapped == bl_mode = "digest" /\ bl_pc = "done"

\* C8: "sha256:<hex>" maps to root joined with "sha256-<hex>", every other
\* digest to root joined with the digest with each ':' turned into '-'
C8_DigestToPath ==
    Mapped =>
        LET d == bl_digest[1]
            n == Len(SHA256_COLON)
        IN IF Len(d) >= n /\ \A i \in 1..n : d[i] = SHA256_COLON[i]
           THEN bl_path[1] = join(BLOBS_ROOT, SHA256_DASH \o [i \in 1..(Len(d) - n) |-> d[n + i]])
           ELSE bl_path[1] = join(BLOBS_ROOT,
                                  [i \in 1..Len(d) |-> IF d[i] = ":" THEN "-" ELSE d[i]])

\* a digest of another scheme with two ':' has been mapped
C8_Witness ==
    /\ Mapped
    /\ ~starts_with(bl_digest[1], SHA256_COLON)
    /\ Cardinality({i \in 1..Len(bl_digest[1]) : bl_digest[1][i] = ":"}) = 2
    /\ find_char(bl_path[1], ":") = 0

\* build_blob_path_info has checked bl_record against the disk
Checked == bl_mode = "record" /\ bl_pc = "done"

\* C9: size_ok is Some only when declared_size and actual_size both are; a
\* missing blob has neither actual_size nor size_ok; a present blob has an
\* actual_size
C9_InfoInvariant ==
    Checked =>
        LET bi == bl_info[1]
        IN /\ bi.size_ok # None => (bi.declared_size # None /\ bi.actual_size # None)
           /\ ~bi.exists => (bi.actual_size = None /\ bi.size_ok = None)
           /\ bi.exists => bi.actual_size # None

\* a record declaring no size has been checked against a blob on disk
C9_Witness ==
    /\ Checked
    /\ bl_info[1].exists
    /\ bl_info[1].declared_size = None
    /\ bl_info[1].size_ok = None

\* the file the record's digest names on disk: FILE_A for DIGEST_A, FILE_B
\* for DIGEST_B
BlobFileOf(l) == IF l.digest = DIGEST_A THEN FILE_A ELSE FILE_B

\* C10: for a record whose blob is on disk with length n, exists is true,
\* actual_size is Some(n), size_ok is Some(declared = n) for a declared size
\* and None without one; digest, media type and declared size are copied
C10_SizeAgreement ==
    (Checked /\ BlobFileOf(bl_record[1]) \in DOMAIN bl_fs) =>
        LET bi == bl_info[1]
            l == bl_record[1]
            n == bl_fs[BlobFileOf(l)]
        IN /\ bi.exists
           /\ bi.actual_size = Some(n)
           /\ l.size # None => bi.size_ok = Some(l.size[1] = n)
           /\ l.size = None => bi.size_ok = None
           /\ bi.digest = l.digest
           /\ bi.media_type = l.media_type
           /\ bi.declared_size = l.size

\* a record has been checked against a blob longer than it declares
C10_Witness ==
    /\ Checked
    /\ bl_info[1].exists
    /\ bl_info[1].declared_size # None
    /\ gt_u64(bl_info[1].actual_size[1], bl_info[1].declared_size[1])
    /\ bl_info[1].size_ok = Some(FALSE)
---------------------------------------------------------------------------
(* Properties of the listed record *)

\* the records of the manifest that declare a size, the layers first
DeclaredSizes ==
    LET records == lm_layers \o (IF IsSome(lm_config) THEN <<lm_config[1]>> ELSE <<>>)
        declaring == SelectSeq(records, LAMBDA l : IsSome(l.size))
    IN [i \in 1..Len(declaring) |-> declaring[i].size[1]]

\* the sum of u64 values as a number of five limbs, which holds the sum of
\* up to 65536 of them without loss
RECURSIVE ExactSum(_)
ExactSum(sizes) ==
    IF sizes = <<>> THEN <<0, 0, 0, 0, 0>>
    ELSE LET r == ExactSum(Tail(sizes))
             a == Head(sizes)
             s4 == r[5] + a[4]
             s3 == r[4] + a[3] + (s4 \div LIMB)
             s2 == r[3] + a[2] + (s3 \div LIMB)
             s1 == r[2] + a[1] + (s2 \div LIMB)
         IN <<r[1] + (s1 \div LIMB), s1 % LIMB, s2 % LIMB, s3 % LIMB, s4 % LIMB>>

\* compute_total_size has been called: by build_listed_model with verbose
\* set, or by into_verbose
Totalled ==
    \/ lm_pc \in {"verbose", "panicked"}
    \/ lm_pc = "built" /\ IsSome(lm_listed[1].layers)

\* C19: compute_total_size returns (it does not abort), None exactly when
\* no layer and no config declares a size, and otherwise Some of the exact
\* sum of the declared sizes
C19_TotalSizeExact ==
    Totalled =>
        /\ lm_pc # "panicked"
        /\ IF DeclaredSizes = <<>> THEN lm_listed[1].total_size = None
           ELSE /\ IsSome(lm_listed[1].total_size)
                /\ <<0>> \o lm_listed[1].total_size[1] = ExactSum(DeclaredSizes)

\* the blob_paths of the record built, empty when there is none
BlobPaths ==
    IF IsSome(lm_listed[1].blob_paths) THEN lm_listed[1].blob_paths[1] ELSE <<>>

\* the primary digest build_blob_infos chooses for the manifest
ChosenPrimary == build_blob_infos(lm_layers, lm_config, BLOBS_ROOT, lm_fs)[1]

\* C20: in the record built by build_listed_model or into_verbose, the
\* blob_paths marked primary are exactly those whose digest is the chosen
\* primary digest, and none is marked when there is no primary digest
C20_PrimaryMarking ==
    lm_pc \in {"built", "verbose"} =>
        \A i \in 1..Len(BlobPaths) :
            BlobPaths[i].primary
                <=> (IsSome(ChosenPrimary) /\ BlobPaths[i].digest = ChosenPrimary[1])

\* a record has been built in which a layer and the config share the
\* primary digest and are both marked, beside a layer that is not
C20_Witness ==
    /\ lm_pc \in {"built", "verbose"}
    /\ IsSome(lm_config)
    /\ Len(BlobPaths) = Len(lm_layers) + 1
    /\ \E i, j \in 1..Len(lm_layers) :
          /\ BlobPaths[i].primary
          /\ BlobPaths[i].digest = lm_config[1].digest
          /\ ~BlobPaths[j].primary
    /\ BlobPaths[Len(BlobPaths)].primary

---------------------------------------------------------------------------
(* Properties of the scan *)

\* the entries visited so far, in traversal order
Visited == SubSeq(sc_entries, 1, sc_pos - 1)

\* a file whose path is taken for a model: three or four segments below the
\* root, none of them hidden unless hidden entries are included
Accepted(e) ==
    /\ e.kind = "file"
    /\ Len(e.comps) \in {3, 4}
    /\ sc_args.include_hidden \/ \A i \in 1..Len(e.comps) : ~is_hidden(e.comps[i])

\* an accepted file that holds a valid manifest
Listable(e) == Accepted(e) /\ e.readable /\ IsSome(e.manifest)

\* an entry that fails: a traversal error, or an accepted file that cannot
\* be read or holds no valid JSON
Failing(e) == e.kind = "error" \/ (Accepted(e) /\ ~(e.readable /\ IsSome(e.manifest)))

PathOf(e) == entry_path(MANIFESTS_ROOT, e.comps)

\* the scan has returned its list
Returned == sc_pc = "returned"

\* C16: the scan is never aborted, each listable entry visited has exactly
\* one ListedModel (in traversal order while the loop runs), and the list
\* returned holds exactly one ListedModel for each listable entry
C16_ScanResilience ==
    /\ sc_pc # "panicked"
    /\ sc_pc = "scan" =>
           [i \in 1..Len(sc_models) |-> sc_models[i].manifest_path]
               = [i \in 1..Len(SelectSeq(Visited, Listable)) |->
                      PathOf(SelectSeq(Visited, Listable)[i])]
    /\ Returned =>
           /\ sc_pos = Len(sc_entries) + 1
           /\ Len(sc_models) = Len(SelectSeq(sc_entries, Listable))
           /\ \A k \in 1..Len(sc_entries) :
                  Listable(sc_entries[k]) =>
                      \E i \in 1..Len(sc_models) :
                          sc_models[i].manifest_path = PathOf(sc_entries[k])

\* the line eprintln! writes for a failing entry
LineFor(e) ==
    IF e.kind = "error" THEN Line("Skipping entry error", <<>>)
    ELSE IF ~e.readable THEN Line("Failed reading manifest", PathOf(e))
    ELSE Line("Skipping invalid manifest JSON", PathOf(e))

\* the records of a list that describe a failure
ErrorRecords(list) == SelectSeq(list, LAMBDA m : "msg" \in DOMAIN m)

PosOf(m) == CHOOSE k \in 1..Len(sc_entries) : PathOf(sc_entries[k]) = m.manifest_path

\* C18: the list returned is in ascending byte-wise order of name, and
\* models of equal name are in traversal order
C18_SortedStable ==
    Returned =>
        \A i, j \in 1..Len(sc_models) :
            i < j =>
                /\ le_str(sc_models[i].name, sc_models[j].name)
                /\ sc_models[i].name = sc_models[j].name
                       => PosOf(sc_models[i]) < PosOf(sc_models[j])

---------------------------------------------------------------------------
(* Further properties of the blob list *)

\* the record build_blob_infos returned describes the manifest record l
RecordOf(bi, l) ==
    /\ bi.digest = l.digest
    /\ bi.media_type = l.media_type
    /\ bi.declared_size = l.size

\* C21: build_blob_infos returns one record per layer, in layer order, then
\* one for the config when there is one, and no record is marked primary
C21_BlobListShape ==
    Listed =>
        /\ Len(bl_infos) = Len(bl_layers) + (IF IsSome(bl_config) THEN 1 ELSE 0)
        /\ \A i \in 1..Len(bl_layers) : RecordOf(bl_infos[i], bl_layers[i])
        /\ IsSome(bl_config) => RecordOf(bl_infos[Len(bl_infos)], bl_config[1])
        /\ \A i \in 1..Len(bl_infos) : ~bl_infos[i].primary

\* the records of two layers of different digests and of a config have
\* been listed
C21_Witness ==
    /\ Listed
    /\ Len(bl_layers) >= 2
    /\ bl_layers[1].digest # bl_layers[2].digest
    /\ IsSome(bl_config)
    /\ Len(bl_infos) = Len(bl_layers) + 1
    /\ bl_infos[Len(bl_infos)].media_type = CONFIG_BASE

---------------------------------------------------------------------------
(* Further properties of the media type grammar *)

\* the value looked up for key in the drawn text: that of the first chunk
\* whose key (the text before its first '=') is key in any case, trimmed
Lookup(key) ==
    IF HasParam(InputText, key) THEN Some(trim(FirstValue(InputText, key))) ELSE None

\* C22: the parameters a parsed value carries are those looked up in the
\* text: chunks are split at their first '=', a chunk with an empty key
\* supplies nothing, keys match in any case and the first occurrence wins
C22_ParameterLookup ==
    (Parsed /\ mt_value.ok) =>
        /\ mt_value.v.tag = "Config" =>
               Some(mt_value.v.config_type) = Lookup(KEY_TYPE)
        /\ mt_value.v.tag = "Template" => mt_value.v.name = Lookup(KEY_NAME)
        /\ mt_value.v.tag = "Tensor" =>
               /\ Some(mt_value.v.name) = Lookup(KEY_NAME)
               /\ Some(mt_value.v.dtype) = Lookup(KEY_DTYPE)
               /\ Some(mt_value.v.shape_raw) = Lookup(KEY_SHAPE)

\* a template text with two name parameters of different values, the keys
\* written in different cases, has been parsed to the first value
C22_Witness ==
    /\ Parsed
    /\ mt_value.ok
    /\ mt_value.v.tag = "Template"
    /\ \E i, j \in 1..Len(Chunks(InputText)) :
          /\ i < j
          /\ Names(Chunks(InputText)[i], KEY_NAME)
          /\ Names(Chunks(InputText)[j], KEY_NAME)
          /\ KeyOf(Chunks(InputText)[i]) # KeyOf(Chunks(InputText)[j])
          /\ trim(ValueOf(Chunks(InputText)[i])) # trim(ValueOf(Chunks(InputText)[j]))
          /\ \A k \in 1..(i - 1) : ~Names(Chunks(InputText)[k], KEY_NAME)
          /\ mt_value.v.name = Some(trim(ValueOf(Chunks(InputText)[i])))

\* C23: a text whose base is one of the parameterless bases parses to the
\* variant of that base, whatever follows the base, as the bare base does
C23_ParameterlessBases ==
    Parsed =>
        \A t \in PlainTags :
            InputBase = RESERVED_PREFIX \o PlainBases[t] =>
                /\ mt_value = Ok(Plain(t))
                /\ mt_value = from_str(RESERVED_PREFIX \o PlainBases[t])

\* the embed base followed by a parameter has been parsed to EmbedLegacy
C23_Witness ==
    /\ Parsed
    /\ InputBase = RESERVED_PREFIX \o PlainBases["EmbedLegacy"]
    /\ HasParam(InputText, <<"f", "o", "o">>)
    /\ mt_value = Ok(Plain("EmbedLegacy"))

(***************************************************************************)
(* Further properties of the listed record                                 *)
(***************************************************************************)

\* build_listed_model has returned from a call with verbose = false
BuiltPlain == lm_pc = "built" /\ ~lm_verbose /\ IsSome(lm_listed)

Reparsed == Parsed /\ mt_pc = "done" /\ mt_value.ok

\* C25: for every text that parses to a value, parsing the serialisation of
\* that value succeeds and yields the same value, whatever spacing, key
\* case, duplicate keys and further parameters the text has; the value is
\* one with clean fields and the shape its shape_raw reads as.
C25_ReparseStable ==
    Reparsed =>
        /\ mt_parsed = Some(mt_value)
        /\ WellFormedValue(mt_value.v)

\* a config text with an upper-case, spaced key, a repeated key and a
\* parameter with an empty key has been parsed, serialised to a text other
\* than the drawn one, and parsed again to the same value
C25_Witness ==
    /\ Reparsed
    /\ mt_parsed = Some(mt_value)
    /\ mt_text[1] # InputText
    /\ mt_input[1] = WithParams(CONFIG_BASE,
                                <<<<"T","Y","P","E"," ","="," ","b">>,
                                  KEY_TYPE \o <<"=", "a">>, <<"=", "a">>>>)
    /\ mt_value.v = Config(<<"b">>)

(***************************************************************************)
(* The two ways to a verbose record                                        *)
(***************************************************************************)

\* ListedModel::new(id, path).into_verbose(manifest, blobs_root) has returned
MadeVerbose == lm_pc = "verbose" /\ IsSome(lm_listed)

\* what build_listed_model returns for the same identity, manifest, path,
\* blobs root and disk with verbose = true
BuiltVerbose ==
    build_listed_model(RECORD_ID, ManifestData(lm_layers, lm_config), RECORD_PATH,
                       BLOBS_ROOT, TRUE, lm_fs, lm_mtime, FALSE).v

\* C26: for every manifest, one with no layers and no config included, and
\* every disk, the record ListedModel::new(id, path).into_verbose(manifest,
\* blobs_root) returns equals, field by field, the record
\* build_listed_model(id, manifest, path, blobs_root, true) returns.
C26_TwoWaysAgree ==
    MadeVerbose =>
        /\ lm_listed[1].name = BuiltVerbose.name
        /\ lm_listed[1].model_id = BuiltVerbose.model_id
        /\ lm_listed[1].manifest_path = BuiltVerbose.manifest_path
        /\ lm_listed[1].layers = BuiltVerbose.layers
        /\ lm_listed[1].config = BuiltVerbose.config
        /\ lm_listed[1].total_size = BuiltVerbose.total_size
        /\ lm_listed[1].mtime = BuiltVerbose.mtime
        /\ lm_listed[1].primary_blob_path = BuiltVerbose.primary_blob_path
        /\ lm_listed[1].blob_paths = BuiltVerbose.blob_paths

\* the two ways differ in nothing else: they agree on every field for a
\* manifest with a layer or a config, and on every field but blob_paths for
\* the manifest with neither
AgreeBesidesEmptyBlobPaths ==
    MadeVerbose =>
        /\ (lm_layers # <<>> \/ IsSome(lm_config)) => lm_listed[1] = BuiltVerbose
        /\ [lm_listed[1] EXCEPT !.blob_paths = None]
               = [BuiltVerbose EXCEPT !.blob_paths = None]

(***************************************************************************)
(* The copies of build_blob_infos                                          *)
(***************************************************************************)

\* what the copies of src/lib.rs and of src/main.rs return for the layers,
\* the config and the disk the listing was made from
ListedByLib == lib_build_blob_infos(bl_layers, bl_config, BLOBS_ROOT, bl_fs)
ListedByMain == main_build_blob_infos(bl_layers, bl_config, BLOBS_ROOT, bl_fs)

\* some layer declares a size above zero
SomeLayerSized ==
    \E i \in 1..Len(bl_layers) :
        IsSome(bl_layers[i].size) /\ gt_u64(bl_layers[i].size[1], u64(0))

\* C27: for every layer list and optional config, the build_blob_infos of
\* src/main.rs, of src/lib.rs and of ollama-file-find-inner return the same
\* primary digest, also when layers exist and none declares a size.
C27_SamePrimaryPolicy ==
    Listed =>
        /\ ListedByLib[1] = bl_primary
        /\ ListedByMain[1] = bl_primary

\* where the copies do agree: src/lib.rs and the inner crate always, with
\* the same records; src/main.rs with the same records always, and with the
\* same primary digest when some layer declares a size above zero or when
\* there is no layer
CopiesAgreeElsewhere ==
    Listed =>
        /\ ListedByLib = <<bl_primary, bl_infos>>
        /\ ListedByMain[2] = bl_infos
        /\ (SomeLayerSized \/ bl_layers = <<>>) => ListedByMain[1] = bl_primary
        /\ (~SomeLayerSized /\ bl_layers # <<>>) =>
               ListedByMain[1] = Some(bl_layers[1].digest)

(***************************************************************************)
(* Where blob paths point                                                  *)
(***************************************************************************)

\* one normal component of a path: not empty, no separator, neither "."
\* nor ".."
FileName(n) ==
    /\ n # <<>>
    /\ \A i \in 1..Len(n) : n[i] # "/"
    /\ n # <<".">>
    /\ n # <<".", ".">>

\* path is root followed by one separator and one further file name
DirectlyUnder(root, path) ==
    /\ starts_with(path, root \o <<"/">>)
    /\ FileName(SubSeq(path, Len(root) + 2, Len(path)))

\* C28: for every digest, whatever characters it holds ('/', ".."
\* components and a leading separator included), the path
\* digest_to_blob_path returns is blobs_root followed by exactly one
\* further file-name component, so that no digest makes the checker look
\* outside blobs_root.
C28_UnderBlobsRoot ==
    Mapped => DirectlyUnder(BLOBS_ROOT, bl_path[1])

\* what does hold: a digest without a separator that is neither empty nor
\* "." nor ".." is mapped to a file directly under blobs_root, and a digest
\* that starts with a separator is mapped to itself (':' replaced), with
\* nothing of blobs_root left in the path
UnderBlobsRootWithoutSeparator ==
    Mapped =>
        /\ FileName(bl_digest[1]) => DirectlyUnder(BLOBS_ROOT, bl_path[1])
        /\ (bl_digest[1] # <<>> /\ bl_digest[1][1] = "/") =>
               bl_path[1] = replace(bl_digest[1], ":", "-")

====
